---- MODULE Spec2Model ----
(***************************************************************************)
(* A model of the leo-subscribers service: the circuit breaker, the retry  *)
(* executor, the Hive connection supervisor, the transfer classifier and   *)
(* the subscription ledger, each translated from its JavaScript source.    *)
(*                                                                         *)
(* Each component has its own specification over the shared variables:     *)
(*   SpecBreaker   CircuitBreaker.execute / success / failure / reset      *)
(*   SpecRetry     RetryOperation.execute                                  *)
(*   SpecMonitor   HiveMonitor.connect / handleDisconnect                  *)
(*   SpecLedger    addSubscription, addFreeTrial, checkExpiredSubscriptions*)
(*   SpecGrants    runs of addSubscription alone                           *)
(*   SpecStream    HiveMonitor.processOperation on streamed operations     *)
(*   SpecReplay    a payment processed and read again by findTransactions  *)
(*   SpecScan      findTransactions                                        *)
(*   SpecSession   main(), startMonitoring(), the handlers and shutdown()  *)
(*   SpecClients   connect() and its callers, each WorkerBee told apart    *)
(*   SpecRace      calls of addSubscription whose queries interleave       *)
(*   SpecDb        Database.query under the sweep and a streamed operation *)
(*   SpecOrder     two transfers of one user processed in either order     *)
(* Time is a counter of abstract units; awaits are separate steps.         *)
(***************************************************************************)
EXTENDS Integers, Sequences, FiniteSets, TLC

VARIABLES
  \* ---- CircuitBreaker (src/logger.js 68-124) ----
  breaker,      \* the CircuitBreaker object's fields
  clock,        \* Date.now()
  inFlight,     \* wrapped operations awaited inside execute()
  cbCall,       \* observation: what the most recent execute() call did
  cbStreak,     \* observation: failed operations since the breaker last closed
  cbLastFail,   \* observation: time of the most recent failed operation
  cbProbe,      \* observation: the first call admitted after a cooldown
  \* ---- RetryOperation (src/retry.js 3-40) ----
  retry,        \* the RetryOperation object's fields
  rAttempt,     \* local `attempt`
  rPc,          \* position inside execute()
  rLastError,   \* local `lastError`
  rWaits,       \* the waitTime of every setTimeout so far
  rErrors,      \* the error thrown by each invocation of the operation so far
  rInvoked,     \* how many times execute() has invoked the operation
  rOutcome,     \* what execute() returned or threw
  \* ---- HiveMonitor (src/monitor-subscriptions.js 30-237) ----
  isConnected,        \* this.isConnected
  reconnectAttempts,  \* this.reconnectAttempts
  hasBot,             \* this.bot is not null
  mainCalled,         \* main() has made its connect() call
  tasks,              \* the connect()/handleDisconnect() calls in progress
  disconnects,        \* observation: disconnects since the last successful connect
  hdLast,             \* observation: what the most recent handleDisconnect() did
  connEnded,          \* observation: how the most recent call settled
  \* ---- subscriptions table (src/init.sql) and its writers ----
  now,          \* the current day (new Date(), CURRENT_TIMESTAMP)
  subs,         \* username -> row of `subscriptions`, or NoRow
  lastOp,       \* observation: the most recent ledger operation
  refExp,       \* observation: username -> expiration by the merge rule
  payment,      \* observation: one payment and the expiration its first processing left
  \* ---- the operation stream (src/monitor-subscriptions.js 141-209, 360-415) ----
  env,          \* process.env
  streamLast,   \* observation: what processOperation did with the last operation
  \* ---- findTransactions (src/monitor-subscriptions.js 241-358) ----
  scan,         \* the position of findTransactions and what it has read and done
  \* ---- main(), startMonitoring() and shutdown() (src/monitor-subscriptions.js) ----
  sup,          \* main()'s position, the clients made, their observers, the handlers running
  sd,           \* shutdown()'s position and what it has done
  \* ---- the WorkerBee clients of connect() (src/monitor-subscriptions.js 66-139) ----
  cl,           \* the clients made, this.bot, the calls in progress, the observers
  \* ---- calls of addSubscription in progress (src/monitor-subscriptions.js 417-476) ----
  race,         \* each call's position and locals, and what the last upsert did
  \* ---- Database.query and its callers (src/db.js 54-69) ----
  dbq,          \* the db.query call in progress, its caller, and what the last ones did
  \* ---- two grants in either order (src/monitor-subscriptions.js 360-476) ----
  ord           \* two transfers of one user and the user's row under each order

breakerVars == <<breaker, clock, inFlight, cbCall, cbStreak, cbLastFail, cbProbe>>
retryVars == <<retry, rAttempt, rPc, rLastError, rWaits, rErrors, rInvoked, rOutcome>>
monitorVars == <<isConnected, reconnectAttempts, hasBot, mainCalled, tasks>>
monitorObs == <<disconnects, hdLast, connEnded>>
ledgerVars == <<now, subs, lastOp, refExp, payment>>
streamVars == <<env, streamLast>>
scanVars == <<scan>>
sessionVars == <<sup, sd>>
clientVars == <<cl>>
raceVars == <<race>>
dbVars == <<dbq>>
orderVars == <<ord>>
vars == <<breakerVars, retryVars, monitorVars, monitorObs, ledgerVars, streamVars, scanVars,
          sessionVars, clientVars, raceVars, dbVars, orderVars>>

\* What each component's own steps leave alone.
notBreaker ==
  <<retryVars, monitorVars, monitorObs, ledgerVars, streamVars, scanVars, sessionVars, clientVars, raceVars, dbVars, orderVars>>
notRetry ==
  <<breakerVars, monitorVars, monitorObs, ledgerVars, streamVars, scanVars, sessionVars, clientVars, raceVars, dbVars, orderVars>>
notMonitor ==
  <<inFlight, cbCall, cbStreak, cbLastFail, cbProbe, retryVars, ledgerVars, streamVars, scanVars, sessionVars, clientVars, raceVars, dbVars, orderVars>>
notLedger ==
  <<breakerVars, retryVars, monitorVars, monitorObs, streamVars, scanVars, sessionVars, clientVars, raceVars, dbVars, orderVars>>
notStream ==
  <<breakerVars, retryVars, monitorVars, monitorObs, env, now, lastOp, refExp, payment, scanVars, sessionVars, clientVars, raceVars, dbVars, orderVars>>
notSession ==
  <<breakerVars, retryVars, mainCalled, tasks, monitorObs, ledgerVars, streamVars, scanVars, clientVars, raceVars, dbVars, orderVars>>
notScan ==
  <<breakerVars, retryVars, monitorVars, monitorObs, streamVars, now, lastOp, refExp, payment, sessionVars, clientVars, raceVars, dbVars, orderVars>>

(***************************************************************************)
(* Bounds of the model.                                                    *)
(***************************************************************************)
MaxThreshold == 3
MaxResetTimeout == 2
MaxClock == 6
MaxInFlight == 2
MaxAttempts == 4

(***************************************************************************)
(* CircuitBreaker                                                          *)
(***************************************************************************)
\* lastFailureTime = null
NoTime == <<>>

\* constructor: failureCount = 0, isOpen = false, lastFailureTime = null
NewBreaker(threshold, timeout) ==
  [failureThreshold |-> threshold, resetTimeout |-> timeout,
   failureCount |-> 0, isOpen |-> FALSE, lastFailureTime |-> NoTime]

\* Date.now() - this.lastFailureTime  (null coerces to 0)
Elapsed(b, t) ==
  IF b.lastFailureTime = NoTime THEN t ELSE t - b.lastFailureTime[1]

\* success() that keeps the count
CBSuccessKeepsCount(b) ==
  [b EXCEPT !.isOpen = FALSE]

\* success()
CBSuccess(b) ==
  [b EXCEPT !.failureCount = 0, !.isOpen = FALSE]

\* failure() with > in place of >=
CBFailureLate(b, t) ==
  [b EXCEPT !.failureCount = b.failureCount + 1,
            !.lastFailureTime = <<t>>,
            !.isOpen = IF b.failureCount + 1 > b.failureThreshold
                       THEN TRUE ELSE b.isOpen]

\* failure()
CBFailure(b, t) ==
  [b EXCEPT !.failureCount = b.failureCount + 1,
            !.lastFailureTime = <<t>>,
            !.isOpen = IF b.failureCount + 1 >= b.failureThreshold
                       THEN TRUE ELSE b.isOpen]

\* reset() that keeps the count
CBResetKeepsCount(b) ==
  [b EXCEPT !.isOpen = FALSE, !.lastFailureTime = NoTime]

\* reset()
CBReset(b) ==
  [b EXCEPT !.failureCount = 0, !.isOpen = FALSE, !.lastFailureTime = NoTime]

\* execute(), the guard before the operation: TRUE when the call is rejected
CBRejects(b, t) ==
  b.isOpen /\ ~(Elapsed(b, t) >= b.resetTimeout)

\* execute(), the guard before the operation: the breaker the operation runs under
CBAdmit(b, t) ==
  IF b.isOpen /\ Elapsed(b, t) >= b.resetTimeout THEN CBReset(b) ELSE b

NoCall == [outcome |-> "none", streak |-> 0, sinceFail |-> 0, previous |-> "none"]

InitBreaker ==
  /\ \E th \in 1..MaxThreshold, rt \in 1..MaxResetTimeout :
       breaker = NewBreaker(th, rt)
  /\ clock = 0
  /\ inFlight = 0
  /\ cbCall = NoCall
  /\ cbStreak = 0
  /\ cbLastFail = 0
  /\ cbProbe = "none"

\* execute(operation) up to `await operation()`
CBExecute ==
  /\ inFlight < MaxInFlight
  /\ IF CBRejects(breaker, clock)
       THEN /\ cbCall' = [outcome |-> "CircuitOpen", streak |-> cbStreak,
                          sinceFail |-> clock - cbLastFail,
                          previous |-> cbCall.outcome]
            /\ UNCHANGED <<breaker, inFlight, cbStreak, cbProbe>>
       ELSE /\ breaker' = CBAdmit(breaker, clock)
            /\ inFlight' = inFlight + 1
            /\ cbProbe' = IF breaker.isOpen THEN "pending"
                          ELSE IF cbProbe = "pending" THEN "pending" ELSE "none"
            /\ cbCall' = [outcome |-> "invoked", streak |-> cbStreak,
                          sinceFail |-> clock - cbLastFail,
                          previous |-> cbCall.outcome]
            /\ cbStreak' = IF breaker'.isOpen = breaker.isOpen THEN cbStreak ELSE 0
  /\ UNCHANGED <<clock, cbLastFail, notBreaker>>

\* execute(operation): the awaited operation resolves
CBOperationSucceeds ==
  /\ inFlight > 0
  /\ inFlight' = inFlight - 1
  /\ breaker' = CBSuccess(breaker)
  /\ cbStreak' = 0
  /\ \/ cbProbe' = "none"
     \/ inFlight > 1 /\ cbProbe = "pending" /\ cbProbe' = "pending"
  /\ UNCHANGED <<clock, cbCall, cbLastFail, notBreaker>>

\* execute(operation): the awaited operation rejects
CBOperationFails ==
  /\ inFlight > 0
  /\ inFlight' = inFlight - 1
  /\ breaker' = CBFailure(breaker, clock)
  /\ cbStreak' = cbStreak + 1
  /\ cbLastFail' = clock
  /\ \/ cbProbe' = IF cbProbe = "pending" THEN "failed" ELSE "none"
     \/ inFlight > 1 /\ cbProbe = "pending" /\ cbProbe' = "pending"
  /\ UNCHANGED <<clock, cbCall, notBreaker>>

\* time passes
CBTick ==
  /\ clock < MaxClock
  /\ clock' = clock + 1
  /\ UNCHANGED <<breaker, inFlight, cbCall, cbStreak, cbLastFail, cbProbe, notBreaker>>

BreakerNext ==
  \/ CBExecute
  \/ CBOperationSucceeds
  \/ CBOperationFails
  \/ CBTick

(***************************************************************************)
(* RetryOperation                                                          *)
(***************************************************************************)
RECURSIVE Pow(_, _)
\* Math.pow(base, exp) for a natural exponent
Pow(base, exp) == IF exp = 0 THEN 1 ELSE base * Pow(base, exp - 1)

\* The backoff factors the program configures: 2 (database) and 1.5 (Hive),
\* each as <<numerator, denominator>>.
BackoffFactors == {<<2, 1>>, <<3, 2>>}

\* The delays the program configures, in milliseconds.
Delays == {1000, 5000}

\* The errors the wrapped operation may reject with.
OpErrors == {[name |-> "Error", message |-> "first"],
             [name |-> "Error", message |-> "second"]}

\* constructor
NewRetry(maxAttempts, delay, factor) ==
  [maxAttempts |-> maxAttempts, delay |-> delay, backoffFactor |-> factor]

\* waitTime with the exponent off by one
RetryWaitTimeOffByOne(r, attempt) ==
  <<r.delay * Pow(r.backoffFactor[1], attempt), Pow(r.backoffFactor[2], attempt)>>

\* const waitTime = this.delay * Math.pow(this.backoffFactor, attempt - 1),
\* as the fraction <<numerator, denominator>>
RetryWaitTime(r, attempt) ==
  <<r.delay * Pow(r.backoffFactor[1], attempt - 1),
    Pow(r.backoffFactor[2], attempt - 1)>>

\* the exhaustion test, one attempt early
RetryGivesUpEarly(r, attempt) == attempt >= r.maxAttempts - 1

\* if (attempt === this.maxAttempts)
RetryGivesUp(r, attempt) == attempt = r.maxAttempts

\* the error thrown on exhaustion, taken from the first attempt
RetryThrownFirst(errors, error) == errors[1]

\* `throw error` inside the catch block of the final attempt
RetryThrown(errors, error) == error

NoOutcome == [kind |-> "none"]

InitRetry ==
  /\ \E m \in 1..MaxAttempts, d \in Delays, f \in BackoffFactors :
       retry = NewRetry(m, d, f)
  /\ rAttempt = 1
  /\ rPc = "idle"
  /\ rLastError = NoOutcome
  /\ rWaits = <<>>
  /\ rErrors = <<>>
  /\ rInvoked = 0
  /\ rOutcome = NoOutcome

\* execute(operation): entry, `let attempt = 1`, first `await operation()`
RExecute ==
  /\ rPc \in {"idle", "done"}
  /\ rAttempt' = 1
  /\ rLastError' = NoOutcome
  /\ rWaits' = <<>>
  /\ rErrors' = <<>>
  /\ rOutcome' = NoOutcome
  /\ rPc' = IF 1 <= retry.maxAttempts THEN "operation" ELSE "done"
  /\ rInvoked' = IF 1 <= retry.maxAttempts THEN 1 ELSE 0
  /\ UNCHANGED <<retry, notRetry>>

\* `return await operation()` resolves
ROperationResolves ==
  /\ rPc = "operation"
  /\ rOutcome' = [kind |-> "returned"]
  /\ rPc' = "done"
  /\ UNCHANGED <<retry, rAttempt, rLastError, rWaits, rErrors, rInvoked, notRetry>>

\* `await operation()` rejects: the catch block
ROperationRejects ==
  /\ rPc = "operation"
  /\ \E error \in OpErrors :
       /\ rLastError' = error
       /\ rErrors' = Append(rErrors, error)
       /\ IF RetryGivesUp(retry, rAttempt)
            THEN /\ rOutcome' = [kind |-> "thrown",
                                 error |-> RetryThrown(rErrors', error)]
                 /\ rPc' = "done"
                 /\ UNCHANGED rWaits
            ELSE /\ rWaits' = Append(rWaits, RetryWaitTime(retry, rAttempt))
                 /\ rPc' = "sleep"
                 /\ UNCHANGED rOutcome
  /\ UNCHANGED <<retry, rAttempt, rInvoked, notRetry>>

\* the setTimeout promise resolves: `attempt++`, loop test, next `await operation()`
RTimerFires ==
  /\ rPc = "sleep"
  /\ rAttempt' = rAttempt + 1
  /\ rPc' = IF rAttempt + 1 <= retry.maxAttempts THEN "operation" ELSE "done"
  /\ rInvoked' = IF rAttempt + 1 <= retry.maxAttempts THEN rInvoked + 1 ELSE rInvoked
  /\ UNCHANGED <<retry, rLastError, rWaits, rErrors, rOutcome, notRetry>>

RetryNext ==
  \/ RExecute
  \/ ROperationResolves
  \/ ROperationRejects
  \/ RTimerFires

(***************************************************************************)
(* HiveMonitor: connect() and handleDisconnect()                           *)
(***************************************************************************)
\* this.maxReconnectAttempts = 5
MaxReconnectAttempts == 5

\* this.circuitBreaker: failureThreshold 3, resetTimeout 60000
HiveBreaker == NewBreaker(3, 60000)

\* this.retry: maxAttempts 5, delay 5000, backoffFactor 1.5
HiveRetry == NewRetry(5, 5000, <<3, 2>>)

\* Bounds: calls in progress at once, disconnects observed in a row, and the
\* clock, which advances ClockStep milliseconds at a time.
MaxTasks == 2
MaxDisconnects == 6
ClockStep == 30000
MaxClockSteps == 2

\* A call in progress is <<caller, position, attempt>>: the caller is main()
\* or handleDisconnect(); the position is the await it is suspended at.
TaskStates ==
  {<<"hd", "reconnectDelay", 0>>}
    \cup ({"main", "hd"} \X {"botStart", "backoff"} \X (1..HiveRetry.maxAttempts))

NoTasks == [s \in TaskStates |-> 0]

TaskCount(ts) ==
  LET RECURSIVE Sum(_)
      Sum(S) == IF S = {} THEN 0
                ELSE LET x == CHOOSE y \in S : TRUE IN ts[x] + Sum(S \ {x})
  IN Sum(TaskStates)

AddTask(ts, s) == [ts EXCEPT ![s] = @ + 1]
DropTask(ts, s) == [ts EXCEPT ![s] = @ - 1]

\* the reconnect test with <= in place of <
HDMayReconnectOneMore(attempts) == attempts <= MaxReconnectAttempts

\* if (this.reconnectAttempts < this.maxReconnectAttempts)
HDMayReconnect(attempts) == attempts < MaxReconnectAttempts

\* connect() that leaves the counter as it is
AttemptsAfterConnectKept(attempts) == attempts

\* connect(), line 87: this.reconnectAttempts = 0
AttemptsAfterConnect(attempts) == 0

NoHD == [outcome |-> "none", seen |-> 0]
NoEnd == [caller |-> "none", result |-> "none"]

InitMonitor ==
  /\ breaker = HiveBreaker
  /\ clock = 0
  /\ isConnected = FALSE
  /\ reconnectAttempts = 0
  /\ hasBot = FALSE
  /\ mainCalled = FALSE
  /\ tasks = NoTasks
  /\ disconnects = 0
  /\ hdLast = NoHD
  /\ connEnded = NoEnd

\* connect() without its first test
ConnectNeverSkips(connected) == FALSE

\* if (this.isConnected) return;
ConnectSkips(connected) == connected

\* connect() from its entry to its first await; `rest` are the other calls in
\* progress.  Lines 67-85: the isConnected test, the breaker's guard, the first
\* retry attempt's `new WorkerBee()` and `await this.bot.start()`.
ConnectEnter(caller, rest) ==
  IF ConnectSkips(isConnected)
    THEN /\ tasks' = rest
         /\ connEnded' = [caller |-> caller, result |-> "noop"]
         /\ UNCHANGED <<breaker, hasBot>>
    ELSE IF CBRejects(breaker, clock)
      THEN /\ tasks' = rest
           /\ connEnded' = [caller |-> caller, result |-> "CircuitOpen"]
           /\ UNCHANGED <<breaker, hasBot>>
      ELSE /\ breaker' = CBAdmit(breaker, clock)
           /\ hasBot' = TRUE
           /\ tasks' = AddTask(rest, <<caller, "botStart", 1>>)
           /\ UNCHANGED connEnded

\* main(): `await monitor.connect()`
MainConnect ==
  /\ ~mainCalled
  /\ mainCalled' = TRUE
  /\ ConnectEnter("main", tasks)
  /\ UNCHANGED <<clock, isConnected, reconnectAttempts, disconnects, hdLast, notMonitor>>

\* A WorkerBee client raises "error" or "disconnect": handleDisconnect() from
\* its entry to `await new Promise(... this.reconnectDelay)`, or to its throw.
BotEmits ==
  /\ hasBot
  /\ TaskCount(tasks) < MaxTasks
  /\ disconnects < MaxDisconnects
  /\ isConnected' = FALSE
  /\ disconnects' = disconnects + 1
  /\ IF HDMayReconnect(reconnectAttempts)
       THEN /\ reconnectAttempts' = reconnectAttempts + 1
            /\ tasks' = AddTask(tasks, <<"hd", "reconnectDelay", 0>>)
            /\ hdLast' = [outcome |-> "reconnect", seen |-> disconnects]
            /\ UNCHANGED connEnded
       ELSE /\ hdLast' = [outcome |-> "fatal", seen |-> disconnects]
            /\ connEnded' = [caller |-> "hd", result |-> "fatal"]
            /\ UNCHANGED <<reconnectAttempts, tasks>>
  /\ UNCHANGED <<breaker, clock, hasBot, mainCalled, notMonitor>>

\* handleDisconnect(): the reconnect delay is over, `await this.connect()`
HDReconnect ==
  /\ tasks[<<"hd", "reconnectDelay", 0>>] > 0
  /\ ConnectEnter("hd", DropTask(tasks, <<"hd", "reconnectDelay", 0>>))
  /\ UNCHANGED <<clock, isConnected, reconnectAttempts, mainCalled, disconnects, hdLast, notMonitor>>

\* `await this.bot.start()` resolves: lines 86-88, then retry.execute and the
\* breaker's execute return (success()), then connect() and its caller return.
BotStartResolves ==
  \E caller \in {"main", "hd"}, k \in 1..HiveRetry.maxAttempts :
    /\ tasks[<<caller, "botStart", k>>] > 0
    /\ tasks' = DropTask(tasks, <<caller, "botStart", k>>)
    /\ isConnected' = TRUE
    /\ reconnectAttempts' = AttemptsAfterConnect(reconnectAttempts)
    /\ disconnects' = 0
    /\ breaker' = CBSuccess(breaker)
    /\ connEnded' = [caller |-> caller, result |-> "connected"]
    /\ UNCHANGED <<clock, hasBot, mainCalled, hdLast, notMonitor>>

\* `await this.bot.start()` rejects: the retry executor's catch block; on the
\* last attempt the error passes through the breaker (failure()) and out of
\* connect() and its caller.
BotStartRejects ==
  \E caller \in {"main", "hd"}, k \in 1..HiveRetry.maxAttempts :
    /\ tasks[<<caller, "botStart", k>>] > 0
    /\ IF RetryGivesUp(HiveRetry, k)
         THEN /\ tasks' = DropTask(tasks, <<caller, "botStart", k>>)
              /\ breaker' = CBFailure(breaker, clock)
              /\ connEnded' = [caller |-> caller, result |-> "exhausted"]
         ELSE /\ tasks' = AddTask(DropTask(tasks, <<caller, "botStart", k>>),
                                  <<caller, "backoff", k>>)
              /\ UNCHANGED <<breaker, connEnded>>
    /\ UNCHANGED <<clock, isConnected, reconnectAttempts, hasBot, mainCalled,
                   disconnects, hdLast, notMonitor>>

\* the retry executor's backoff is over: `attempt++`, a new WorkerBee, start()
BackoffOver ==
  \E caller \in {"main", "hd"}, k \in 1..(HiveRetry.maxAttempts - 1) :
    /\ tasks[<<caller, "backoff", k>>] > 0
    /\ tasks' = AddTask(DropTask(tasks, <<caller, "backoff", k>>),
                        <<caller, "botStart", k + 1>>)
    /\ UNCHANGED <<breaker, clock, isConnected, reconnectAttempts, hasBot,
                   mainCalled, disconnects, hdLast, connEnded, notMonitor>>

\* time passes
MonitorTick ==
  /\ clock < MaxClockSteps * ClockStep
  /\ clock' = clock + ClockStep
  /\ UNCHANGED <<breaker, monitorVars, monitorObs, notMonitor>>

MonitorNext ==
  \/ MainConnect
  \/ BotEmits
  \/ HDReconnect
  \/ BotStartResolves
  \/ BotStartRejects
  \/ BackoffOver
  \/ MonitorTick

(***************************************************************************)
(* Dates.  A timestamp is a day number, day 0 being 1 January; the time of *)
(* day, which setDate() and plus() keep, is left out.  Years have 365 days.*)
(***************************************************************************)
MonthLengths == <<31, 28, 31, 30, 31, 30, 31, 31, 30, 31, 30, 31>>

RECURSIVE DaysBeforeMonth(_)
\* days of the year before month m (1..12)
DaysBeforeMonth(m) == IF m = 1 THEN 0 ELSE DaysBeforeMonth(m - 1) + MonthLengths[m - 1]

\* the month (1..12) holding day-of-year d (0..364)
MonthOfYearDay(d) ==
  CHOOSE m \in 1..12 : DaysBeforeMonth(m) <= d /\ d < DaysBeforeMonth(m) + MonthLengths[m]

\* the first day of the month holding day d
MonthStart(d) ==
  LET year == d \div 365
      yday == d % 365
  IN year * 365 + DaysBeforeMonth(MonthOfYearDay(yday))

\* Date.prototype.getDate(): the day of the month, from 1
GetDate(d) == d - MonthStart(d) + 1

\* Date.prototype.setDate(n): day n of d's month, rolling over into the
\* months after (or before) it when n is outside the month
SetDate(d, n) == MonthStart(d) + n - 1

\* luxon DateTime.plus({ days })
PlusDays(d, days) == d + days

(***************************************************************************)
(* The subscriptions table: addSubscription, addFreeTrial and the sweep    *)
(***************************************************************************)
Users == {"alice", "bob"}

NoRow == [exists |-> FALSE]

Row(subscriptionDate, expirationDate, updated, active) ==
  [exists |-> TRUE, subscription_date |-> subscriptionDate,
   expiration_date |-> expirationDate, date_updated |-> updated,
   active_subscription |-> active]

\* Bounds: the days the clock runs for.
MaxElapsed == 3

\* The days a run starts on: 1 January and 27 February.
StartDays == {0, 57}

\* The day counts addSubscription is called with: 31 for the standard
\* product, and an AI product's day count, which the environment sets.
GrantDays == {31, 2}

\* The day counts the free-trial tool is run with (0 revokes).
TrialDays == {0, 3}

\* the lapse test with >= in place of >
GrantLapsedInclusive(row, subscriptionDate) ==
  subscriptionDate >= row.expiration_date

\* the lapse test ignored: every grant overwrites
GrantLapsedAlways(row, subscriptionDate) == TRUE

\* if (subscriptionDate > currentExpirationDate)
GrantLapsed(row, subscriptionDate) ==
  subscriptionDate > row.expiration_date

\* addSubscription: the value of expirationDate when the upsert runs.
\* Line 420 sets it to now + days; for an existing, lapsed row line 435 then
\* calls setDate(subscriptionDate.getDate() + days) on that later date.
GrantExpiration(row, subscriptionDate, days) ==
  LET first == SetDate(subscriptionDate, GetDate(subscriptionDate) + days)
  IN IF row.exists /\ GrantLapsed(row, subscriptionDate)
       THEN SetDate(first, GetDate(subscriptionDate) + days)
       ELSE first

\* addSubscription(username, days) on the row of username; readOk and writeOk
\* say whether the SELECT and the upsert succeed.  The result is the row
\* afterwards and the value returned.
AddSubscription(row, today, days, readOk, writeOk) ==
  IF ~readOk THEN [row |-> row, returned |-> FALSE]
  ELSE IF row.exists /\ ~GrantLapsed(row, today) THEN [row |-> row, returned |-> TRUE]
  ELSE IF ~writeOk THEN [row |-> row, returned |-> FALSE]
  ELSE [row |-> Row(today, GrantExpiration(row, today, days), today, TRUE),
        returned |-> TRUE]

\* addFreeTrial's ON CONFLICT ... WHERE condition
TrialUpdates(row, expirationDate, days) ==
  row.expiration_date < expirationDate \/ days = 0

\* addFreeTrial writing FALSE whatever the day count
TrialActiveNever(days) == FALSE

\* addFreeTrial, line 41: active_subscription = ${days > 0}
TrialActive(days) == days > 0

\* addFreeTrial(username, days) on the row of username
AddFreeTrial(row, today, days, queryOk) ==
  LET expirationDate == IF days = 0 THEN today ELSE PlusDays(today, days)
  IN IF ~queryOk THEN row
     ELSE IF ~row.exists THEN Row(today, expirationDate, today, TRUE)
     ELSE IF TrialUpdates(row, expirationDate, days)
       THEN Row(today, expirationDate, today, TrialActive(days))
       ELSE row

\* the sweep's condition with <= in place of <
SweepSelectsInclusive(row, today) ==
  row.exists /\ row.expiration_date <= today /\ row.active_subscription

\* checkExpiredSubscriptions: WHERE expiration_date < CURRENT_TIMESTAMP
\* AND active_subscription = TRUE
SweepSelects(row, today) ==
  row.exists /\ row.expiration_date < today /\ row.active_subscription

\* checkExpiredSubscriptions: SET active_subscription = FALSE
SweepRow(row, today) ==
  IF SweepSelects(row, today) THEN [row EXCEPT !.active_subscription = FALSE] ELSE row

NoPayment == [made |-> FALSE]

NoOp ==
  [op |-> "none", user |-> "", days |-> 0, readOk |-> FALSE, returned |-> FALSE,
   hadRow |-> FALSE, windowOpen |-> FALSE, wrote |-> FALSE, repeat |-> FALSE,
   usernames |-> {}]

InitLedger ==
  /\ now \in StartDays
  /\ subs = [u \in Users |-> NoRow]
  /\ lastOp = NoOp
  /\ refExp = [u \in Users |-> NoRow]
  /\ payment = NoPayment

\* expiration by the merge rule: a grant takes effect when there is no row or
\* the row has lapsed, and then sets the expiration to grant time + days
MergeRule(ref, today, days) ==
  IF ~ref.exists \/ today > ref.expiration_date
    THEN [exists |-> TRUE, expiration_date |-> today + days]
    ELSE ref

\* processSubscriptionTransfer -> addSubscription(username, days)
GrantStep(u, days, readOk, writeOk) ==
  LET r == AddSubscription(subs[u], now, days, readOk, writeOk)
  IN /\ subs' = [subs EXCEPT ![u] = r.row]
     /\ lastOp' = [NoOp EXCEPT
                     !.op = "addSubscription", !.user = u, !.days = days,
                     !.readOk = readOk, !.returned = r.returned,
                     !.hadRow = subs[u].exists,
                     !.windowOpen = (subs[u].exists /\ subs[u].expiration_date >= now),
                     !.wrote = (r.row # subs[u]),
                     !.repeat = (/\ lastOp.op = "addSubscription" /\ lastOp.user = u
                                 /\ lastOp.days = days /\ lastOp.wrote)]
     /\ UNCHANGED <<now, notLedger>>

\* a grant, among the table's other writers
Grant ==
  \E u \in Users, days \in GrantDays, readOk \in BOOLEAN, writeOk \in BOOLEAN :
    /\ GrantStep(u, days, readOk, writeOk)
    /\ UNCHANGED <<refExp, payment>>

\* a grant in a run of grants alone, followed by the merge rule
GrantInSequence ==
  \E u \in Users, days \in GrantDays, readOk \in BOOLEAN, writeOk \in BOOLEAN :
    /\ GrantStep(u, days, readOk, writeOk)
    /\ refExp' = IF readOk /\ writeOk
                   THEN [refExp EXCEPT ![u] = MergeRule(refExp[u], now, days)]
                   ELSE refExp
    /\ UNCHANGED payment

\* free-trial.js run by the operator
FreeTrial ==
  \E u \in Users, days \in TrialDays, queryOk \in BOOLEAN :
    LET row == AddFreeTrial(subs[u], now, days, queryOk)
    IN /\ subs' = [subs EXCEPT ![u] = row]
       /\ lastOp' = [NoOp EXCEPT
                       !.op = "addFreeTrial", !.user = u, !.days = days,
                       !.readOk = queryOk, !.returned = queryOk,
                       !.hadRow = subs[u].exists,
                       !.windowOpen = (subs[u].exists /\ subs[u].expiration_date >= now),
                       !.wrote = (row # subs[u])]
       /\ UNCHANGED <<now, refExp, payment, notLedger>>

\* checkExpiredSubscriptions()
Sweep ==
  \E queryOk \in BOOLEAN :
    LET rows == {u \in Users : SweepSelects(subs[u], now)}
    IN /\ subs' = IF queryOk THEN [u \in Users |-> SweepRow(subs[u], now)] ELSE subs
       /\ lastOp' = [NoOp EXCEPT
                       !.op = "sweep", !.readOk = queryOk, !.returned = queryOk,
                       !.wrote = (queryOk /\ rows # {}),
                       !.usernames = IF queryOk THEN rows ELSE {}]
       /\ UNCHANGED <<now, refExp, payment, notLedger>>

\* a day passes
NextDay ==
  /\ \E start \in StartDays : start <= now /\ now < start + MaxElapsed
  /\ now' = now + 1
  /\ UNCHANGED <<subs, lastOp, refExp, payment, notLedger>>

LedgerNext ==
  \/ Grant
  \/ FreeTrial
  \/ Sweep
  \/ NextDay

GrantsNext ==
  \/ GrantInSequence
  \/ NextDay

\* the days of history findTransactions reads again at startup
BackfillWindow == 31

\* A qualifying payment is delivered for the first time and reaches
\* addSubscription.
PaymentArrives ==
  \E u \in Users, days \in GrantDays, readOk \in BOOLEAN, writeOk \in BOOLEAN :
    /\ ~payment.made
    /\ GrantStep(u, days, readOk, writeOk)
    /\ payment' = IF readOk /\ writeOk
                    THEN [made |-> TRUE, user |-> u, days |-> days, at |-> now,
                          expiration_date |-> subs'[u].expiration_date,
                          replays |-> 0]
                    ELSE payment
    /\ UNCHANGED refExp

\* The same operation is delivered again: the stream replays it after a
\* reconnection, or findTransactions reads it again after a restart (it is
\* still within the window of history read).  Nothing remembers that it was
\* processed, so it reaches addSubscription again.
PaymentReplayed ==
  \E readOk \in BOOLEAN, writeOk \in BOOLEAN :
    /\ payment.made
    /\ now - payment.at <= BackfillWindow
    /\ GrantStep(payment.user, payment.days, readOk, writeOk)
    /\ payment' = [payment EXCEPT !.replays = IF @ < 2 THEN @ + 1 ELSE @]
    /\ UNCHANGED refExp

ReplayNext ==
  \/ PaymentArrives
  \/ PaymentReplayed
  \/ NextDay

(***************************************************************************)
(* The transfer classifier: processOperation and                           *)
(* processSubscriptionTransfer.  A string the code inspects character by   *)
(* character (the memo, SUBSCRIPTION_ACCOUNT) is a tuple of characters; an *)
(* amount string "5.000 HBD" is the pair of its value in thousandths and   *)
(* its symbol.                                                             *)
(***************************************************************************)
UpperCase ==
  <<"A", "B", "C", "D", "E", "F", "G", "H", "I", "J", "K", "L", "M",
    "N", "O", "P", "Q", "R", "S", "T", "U", "V", "W", "X", "Y", "Z">>

LowerCase ==
  <<"a", "b", "c", "d", "e", "f", "g", "h", "i", "j", "k", "l", "m",
    "n", "o", "p", "q", "r", "s", "t", "u", "v", "w", "x", "y", "z">>

Digits == {"0", "1", "2", "3", "4", "5", "6", "7", "8", "9"}

\* the regular expression class \w
WordChars ==
  {UpperCase[i] : i \in DOMAIN UpperCase} \cup {LowerCase[i] : i \in DOMAIN LowerCase}
    \cup Digits \cup {"_"}

\* String.prototype.toLowerCase() on one character
ToLowerChar(c) ==
  IF \E i \in DOMAIN UpperCase : UpperCase[i] = c
    THEN LowerCase[CHOOSE i \in DOMAIN UpperCase : UpperCase[i] = c]
    ELSE c

\* String.prototype.toLowerCase()
ToLowerCase(str) == [i \in 1..Len(str) |-> ToLowerChar(str[i])]

\* String.prototype.toUpperCase(), for building the streamed memos
ToUpperCase(str) ==
  [i \in 1..Len(str) |->
     IF \E k \in DOMAIN LowerCase : LowerCase[k] = str[i]
       THEN UpperCase[CHOOSE k \in DOMAIN LowerCase : LowerCase[k] = str[i]]
       ELSE str[i]]

\* the first character in upper case
Capitalized(str) ==
  IF str = <<>> THEN str ELSE ToUpperCase(SubSeq(str, 1, 1)) \o SubSeq(str, 2, Len(str))

\* the literal "subscribe:"
SubscribePrefix == <<"s", "u", "b", "s", "c", "r", "i", "b", "e", ":">>

\* memo.match(/^subscribe:(\w+)$/): the captured group, or <<>> for no match
\* (a match never captures the empty string)
MemoMatch(memo) ==
  LET n == Len(SubscribePrefix)
  IN IF /\ Len(memo) > n
        /\ SubSeq(memo, 1, n) = SubscribePrefix
        /\ \A i \in (n + 1)..Len(memo) : memo[i] \in WordChars
       THEN SubSeq(memo, n + 1, Len(memo))
       ELSE <<>>

\* process.env as the deployment sets it: amounts in thousandths of HBD.
\* The two payment accounts are different accounts.
Envs ==
  [SUBSCRIPTION_PAYMENT_ACCOUNT : {"leo.pay"},
   SUBSCRIPTION_AMOUNT : {5000},
   SUBSCRIPTION_ACCOUNT : {<<"l", "e", "o">>, <<"L", "e", "o">>, <<"l", "-", "o">>},
   AI_PAYMENT_ACCOUNT : {"leo.ai"},
   AI_SUBSCRIPTION_FULL_AMOUNT : {10000},
   AI_SUBSCRIPTION_MINI_AMOUNT : {3000},
   AI_SUBSCRIPTION_FULL_DAYS : {31},
   AI_SUBSCRIPTION_MINI_DAYS : {2}]

\* `subscribe:${process.env.SUBSCRIPTION_ACCOUNT.toLowerCase()}`
ExpectedMemo(e) == SubscribePrefix \o ToLowerCase(e.SUBSCRIPTION_ACCOUNT)

\* the memos streamed: the expected one in several letter cases, and others
Memos(e) ==
  LET account == e.SUBSCRIPTION_ACCOUNT
  IN {SubscribePrefix \o ToLowerCase(account),
      SubscribePrefix \o ToUpperCase(account),
      Capitalized(SubscribePrefix) \o ToLowerCase(account),
      ToUpperCase(SubscribePrefix) \o ToUpperCase(account),
      SubscribePrefix \o ToLowerCase(account) \o <<"x">>,
      <<>>}

\* an operation whose `op` is not an array
OtherShape == [isArray |-> FALSE]

\* the accounts the streamed transfers come from
Senders == {"alice"}

\* an operation that is not a transfer, carrying the standard product's payload
OtherType(e) ==
  [isArray |-> TRUE, type |-> "vote", from |-> "alice",
   to |-> e.SUBSCRIPTION_PAYMENT_ACCOUNT,
   amount |-> <<e.SUBSCRIPTION_AMOUNT, "HBD">>,
   memo |-> SubscribePrefix \o ToLowerCase(e.SUBSCRIPTION_ACCOUNT)]

\* the operations the observers deliver
Operations(e) ==
  [isArray : {TRUE},
   type : {"transfer", "fill_recurrent_transfer"},
   from : Senders,
   to : {e.SUBSCRIPTION_PAYMENT_ACCOUNT, e.AI_PAYMENT_ACCOUNT, "someone"},
   amount : {e.SUBSCRIPTION_AMOUNT, e.AI_SUBSCRIPTION_FULL_AMOUNT,
             e.AI_SUBSCRIPTION_MINI_AMOUNT} \X {"HBD", "HIVE"},
   memo : Memos(e)] \cup {OtherType(e), OtherShape}

\* const [amountValue, symbol] = opData.amount.split(' '); parseFloat(amountValue)
TransferAmount(op) == op.amount[1]

Symbol(op) == op.amount[2]

\* transformedTransfer: the symbol is always written as 'HBD'
TransformedTransfer(op) ==
  [from |-> op.from, to |-> op.to,
   amount |-> [amount |-> TransferAmount(op), symbol |-> "HBD"],
   memo |-> op.memo]

\* opData.memo.toLowerCase() === `subscribe:${...toLowerCase()}`
StandardMemoAccepted(e, memo) == ToLowerCase(memo) = ExpectedMemo(e)

\* processOperation: the AI branch hands the transfer on
AIBranch(e, op) ==
  /\ op.to = e.AI_PAYMENT_ACCOUNT
  /\ Symbol(op) = "HBD"
  /\ \/ TransferAmount(op) = e.AI_SUBSCRIPTION_FULL_AMOUNT
     \/ TransferAmount(op) = e.AI_SUBSCRIPTION_MINI_AMOUNT

\* the standard branch without its currency test
StandardBranchAnyCurrency(e, op) ==
  /\ ~(op.to = e.AI_PAYMENT_ACCOUNT /\ Symbol(op) = "HBD")
  /\ op.to = e.SUBSCRIPTION_PAYMENT_ACCOUNT
  /\ TransferAmount(op) = e.SUBSCRIPTION_AMOUNT
  /\ StandardMemoAccepted(e, op.memo)

\* processOperation: the standard branch (the else of the AI test) hands the
\* transfer on
StandardBranch(e, op) ==
  /\ ~(op.to = e.AI_PAYMENT_ACCOUNT /\ Symbol(op) = "HBD")
  /\ op.to = e.SUBSCRIPTION_PAYMENT_ACCOUNT
  /\ TransferAmount(op) = e.SUBSCRIPTION_AMOUNT
  /\ Symbol(op) = "HBD"
  /\ StandardMemoAccepted(e, op.memo)

\* processOperation: does the operation reach processSubscriptionTransfer?
HandsOn(e, op) ==
  /\ op.isArray
  /\ op.type \in {"transfer", "fill_recurrent_transfer"}
  /\ op.to \in {e.SUBSCRIPTION_PAYMENT_ACCOUNT, e.AI_PAYMENT_ACCOUNT}
  /\ (AIBranch(e, op) \/ StandardBranch(e, op))

NoGrant == [calls |-> FALSE, days |-> 0]

\* processSubscriptionTransfer(transfer): whether it calls addSubscription,
\* and with how many days
ProcessSubscriptionTransfer(e, transfer) ==
  LET value == transfer.amount.amount
      symbol == transfer.amount.symbol
      memoMatch == MemoMatch(transfer.memo)
  IN IF /\ transfer.to = e.AI_PAYMENT_ACCOUNT /\ symbol = "HBD"
        /\ value = e.AI_SUBSCRIPTION_FULL_AMOUNT
       THEN [calls |-> TRUE, days |-> e.AI_SUBSCRIPTION_FULL_DAYS]
     ELSE IF /\ transfer.to = e.AI_PAYMENT_ACCOUNT /\ symbol = "HBD"
             /\ value = e.AI_SUBSCRIPTION_MINI_AMOUNT
       THEN [calls |-> TRUE, days |-> e.AI_SUBSCRIPTION_MINI_DAYS]
     ELSE IF /\ transfer.to = e.SUBSCRIPTION_PAYMENT_ACCOUNT
             /\ value = e.SUBSCRIPTION_AMOUNT
             /\ symbol = "HBD"
       THEN IF memoMatch = <<>> THEN NoGrant
            ELSE IF ToLowerCase(memoMatch) # ToLowerCase(e.SUBSCRIPTION_ACCOUNT) THEN NoGrant
            ELSE [calls |-> TRUE, days |-> 31]
     ELSE NoGrant

NoStream ==
  [op |-> OtherShape, handedOn |-> FALSE, granted |-> FALSE, days |-> 0,
   returned |-> FALSE, changed |-> FALSE, errorLogged |-> FALSE, dbOk |-> FALSE]

InitStream ==
  /\ env \in Envs
  /\ streamLast = NoStream

\* observerHandler.next(operation) -> processOperation(operation), to its end;
\* readOk and writeOk say whether addSubscription's queries succeed
ProcessOperationOn(op, readOk, writeOk) ==
  LET handedOn == HandsOn(env, op)
      grant == IF handedOn
                 THEN ProcessSubscriptionTransfer(env, TransformedTransfer(op))
                 ELSE NoGrant
      r == IF grant.calls
             THEN AddSubscription(subs[op.from], now, grant.days, readOk, writeOk)
             ELSE [row |-> NoRow, returned |-> FALSE]
  IN /\ subs' = IF grant.calls THEN [subs EXCEPT ![op.from] = r.row] ELSE subs
     /\ streamLast' = [op |-> op, handedOn |-> handedOn, granted |-> grant.calls,
                       days |-> grant.days, returned |-> r.returned,
                       changed |-> (grant.calls /\ r.row # subs[op.from]),
                       errorLogged |-> (grant.calls /\ ~r.returned),
                       dbOk |-> (readOk /\ writeOk)]
     /\ UNCHANGED notStream

\* an operation arrives that processOperation drops or that
\* processSubscriptionTransfer turns down: no query is made
ProcessOperation ==
  \E op \in Operations(env) :
    /\ ~(HandsOn(env, op) /\ ProcessSubscriptionTransfer(env, TransformedTransfer(op)).calls)
    /\ ProcessOperationOn(op, TRUE, TRUE)

\* an operation arrives that ends in addSubscription
ProcessPayment ==
  \E op \in Operations(env), readOk \in BOOLEAN, writeOk \in BOOLEAN :
    /\ HandsOn(env, op)
    /\ ProcessSubscriptionTransfer(env, TransformedTransfer(op)).calls
    /\ ProcessOperationOn(op, readOk, writeOk)

StreamNext ==
  \/ ProcessOperation
  \/ ProcessPayment

(***************************************************************************)
(* findTransactions: the scan of recent history at startup                 *)
(***************************************************************************)
\* Bound: the operations one account history holds.
MaxHistory == 2

\* checkParams
CheckParams(e) ==
  <<[account |-> e.SUBSCRIPTION_PAYMENT_ACCOUNT, amount |-> e.SUBSCRIPTION_AMOUNT,
     requireMemo |-> TRUE, memoText |-> SubscribePrefix \o e.SUBSCRIPTION_ACCOUNT],
    [account |-> e.AI_PAYMENT_ACCOUNT, amount |-> e.AI_SUBSCRIPTION_FULL_AMOUNT,
     requireMemo |-> FALSE, memoText |-> <<>>],
    [account |-> e.AI_PAYMENT_ACCOUNT, amount |-> e.AI_SUBSCRIPTION_MINI_AMOUNT,
     requireMemo |-> FALSE, memoText |-> <<>>]>>

\* a transfer as condenser_api.get_account_history returns it
HistoryTransfer(from, to, amount, symbol, memo, timestamp) ==
  [op |-> [isArray |-> TRUE, type |-> "transfer", from |-> from, to |-> to,
           amount |-> <<amount, symbol>>, memo |-> memo],
   timestamp |-> timestamp]

\* the entries an account's history is made of: payments of yesterday, one
\* with a capital in its memo, one in the wrong currency, one from before the
\* window read, and an entry of another shape
HistoryEntries(e, account, today) ==
  IF account = e.SUBSCRIPTION_PAYMENT_ACCOUNT
    THEN {HistoryTransfer("alice", account, e.SUBSCRIPTION_AMOUNT, "HBD",
                          ExpectedMemo(e), today - 1),
          HistoryTransfer("bob", account, e.SUBSCRIPTION_AMOUNT, "HBD",
                          Capitalized(SubscribePrefix) \o ToLowerCase(e.SUBSCRIPTION_ACCOUNT),
                          today - 1),
          HistoryTransfer("bob", account, e.SUBSCRIPTION_AMOUNT, "HIVE",
                          ExpectedMemo(e), today - 1),
          HistoryTransfer("alice", account, e.SUBSCRIPTION_AMOUNT, "HBD",
                          ExpectedMemo(e), today - BackfillWindow - 1)}
    ELSE {HistoryTransfer("alice", account, e.AI_SUBSCRIPTION_FULL_AMOUNT, "HBD",
                          <<>>, today - 1),
          HistoryTransfer("bob", account, e.AI_SUBSCRIPTION_MINI_AMOUNT, "HBD",
                          <<>>, today - 1),
          [op |-> OtherShape, timestamp |-> today - 1]}

\* data.result: the histories the node may answer with
Histories(e, account, today) ==
  UNION {[1..n -> HistoryEntries(e, account, today)] : n \in 0..MaxHistory}

\* lines 302-324 without the test of the currency code
IsValidTransferAnyCurrency(params, entry, startDate, endDate) ==
  /\ entry.op.isArray
  /\ entry.op.type \in {"transfer", "fill_recurrent_transfer"}
  /\ entry.op.to = params.account
  /\ TransferAmount(entry.op) = params.amount
  /\ entry.timestamp >= startDate
  /\ entry.timestamp <= endDate
  /\ params.requireMemo => ToLowerCase(entry.op.memo) = ToLowerCase(params.memoText)

\* lines 302-324: isValidTransfer && isValidMemo
IsValidTransfer(params, entry, startDate, endDate) ==
  /\ entry.op.isArray
  /\ entry.op.type \in {"transfer", "fill_recurrent_transfer"}
  /\ entry.op.to = params.account
  /\ TransferAmount(entry.op) = params.amount
  /\ Symbol(entry.op) = "HBD"
  /\ entry.timestamp >= startDate
  /\ entry.timestamp <= endDate
  /\ params.requireMemo => ToLowerCase(entry.op.memo) = ToLowerCase(params.memoText)

\* validTransfers after the loop of lines 298-339
ValidTransfers(params, history, startDate, endDate) ==
  LET RECURSIVE Collect(_)
      Collect(i) ==
        IF i > Len(history) THEN <<>>
        ELSE IF IsValidTransfer(params, history[i], startDate, endDate)
          THEN <<TransformedTransfer(history[i].op)>> \o Collect(i + 1)
          ELSE Collect(i + 1)
  IN Collect(1)

\* the loop of lines 342-348 stopped at the first transfer that fails
ScanRestStopsOnFailure(result, rest) == IF result THEN rest ELSE <<>>

\* lines 342-348: whatever the result, the loop goes on with the transfers left
ScanRest(result, rest) == rest

\* findTransactions run on day `today` over a history holding `op` with
\* timestamp ts: the checkParams entries under which the operation is pushed
\* to validTransfers (line 336) and then granted by
\* processSubscriptionTransfer (line 344)
BackfillGrants(e, op, ts, today) ==
  {i \in DOMAIN CheckParams(e) :
     /\ IsValidTransfer(CheckParams(e)[i], [op |-> op, timestamp |-> ts],
                        today - BackfillWindow, today)
     /\ ProcessSubscriptionTransfer(e, TransformedTransfer(op)).calls}

NoScan ==
  [pc |-> "idle", param |-> 0, queue |-> <<>>, valid |-> <<>>, handled |-> <<>>]

\* main(): await findTransactions(...)
ScanStart ==
  /\ scan.pc = "idle"
  /\ scan' = [scan EXCEPT !.pc = "fetch", !.param = 1]
  /\ UNCHANGED <<subs, notScan>>

\* the fetch of one account's history answers: lines 287-339
ScanFetchResolves ==
  /\ scan.pc = "fetch"
  /\ LET params == CheckParams(env)[scan.param]
     IN \E history \in Histories(env, params.account, now) :
          LET valid == ValidTransfers(params, history, now - BackfillWindow, now)
          IN scan' = [scan EXCEPT !.pc = "process", !.queue = valid,
                                  !.valid = valid, !.handled = <<>>]
  /\ UNCHANGED <<subs, notScan>>

\* the fetch fails or answers with an error: lines 288-293, 351-353
ScanFetchFails ==
  /\ scan.pc = "fetch"
  /\ scan' = [scan EXCEPT !.pc = "aborted"]
  /\ UNCHANGED <<subs, notScan>>

\* lines 342-348: the next valid transfer goes through
\* processSubscriptionTransfer; a false result is logged
ScanProcessItem ==
  /\ scan.pc = "process"
  /\ scan.queue # <<>>
  /\ \E readOk \in BOOLEAN, writeOk \in BOOLEAN :
       LET transfer == Head(scan.queue)
           grant == ProcessSubscriptionTransfer(env, transfer)
           r == IF grant.calls
                  THEN AddSubscription(subs[transfer.from], now, grant.days, readOk, writeOk)
                  ELSE [row |-> NoRow, returned |-> FALSE]
           result == grant.calls /\ r.returned
       IN /\ subs' = IF grant.calls THEN [subs EXCEPT ![transfer.from] = r.row] ELSE subs
          /\ scan' = [scan EXCEPT
                        !.queue = ScanRest(result, Tail(scan.queue)),
                        !.handled = Append(@, [transfer |-> transfer, result |-> result])]
  /\ UNCHANGED notScan

\* the transfers of one account are done: the next checkParams entry, or the end
ScanWindowDone ==
  /\ scan.pc = "process"
  /\ scan.queue = <<>>
  /\ scan' = IF scan.param < Len(CheckParams(env))
               THEN [scan EXCEPT !.pc = "fetch", !.param = @ + 1]
               ELSE [scan EXCEPT !.pc = "done"]
  /\ UNCHANGED <<subs, notScan>>

ScanNext ==
  \/ ScanStart
  \/ ScanFetchResolves
  \/ ScanFetchFails
  \/ ScanProcessItem
  \/ ScanWindowDone

(***************************************************************************)
(* The session: main(), startMonitoring(), the observers' handlers and     *)
(* shutdown().  connect() is taken by its outcome here; its steps are the  *)
(* subject of SpecMonitor.  A client is the serial number of a WorkerBee.  *)
(***************************************************************************)
\* Bounds: the WorkerBee clients made, the handlers running at once for one
\* account, the handleDisconnect() calls in their delay at once.
MaxClients == 2
MaxPending == 2
MaxDelayed == 1

\* the two accounts startMonitoring() observes
StreamAccounts == {"SUBSCRIPTION_PAYMENT_ACCOUNT", "AI_PAYMENT_ACCOUNT"}

\* how a call of processOperation ends: the operation was dealt with, the
\* grant failed (addSubscription returned false), or processOperation threw
HandlerOutcomes == {"done", "grantFailed", "threw"}

\* constructor: bot = null, no client, no observer; main() not yet past connect()
NoSession ==
  [pc |-> "start", bot |-> 0, client |-> FALSE, globalMonitor |-> FALSE,
   started |-> {}, observed |-> {},
   pending |-> [a \in StreamAccounts |-> 0], delayed |-> 0,
   reconnected |-> FALSE, isolation |-> "none", lastSettled |-> "none"]

NoShutdown ==
  [pc |-> "none", stopReturned |-> FALSE, poolEndCalled |-> FALSE,
   exitCode |-> -1, dispatchedAfterStop |-> FALSE]

InitSession ==
  /\ isConnected = FALSE
  /\ reconnectAttempts = 0
  /\ hasBot = FALSE
  /\ sup = NoSession
  /\ sd = NoShutdown

\* process.exit() has not been called
Alive == sd.pc # "exited"

\* connect() succeeded: lines 73-88 on a new client
Connected(s) ==
  [s EXCEPT !.bot = @ + 1, !.started = @ \cup {s.bot + 1}]

\* how a call of connect() that is not a no-op ends: bot.start() resolved;
\* every retry attempt failed, each on a client made at line 73 and never
\* started; or the breaker was open and no client was made
ConnectOutcomes == {"connected", "exhausted", "CircuitOpen"}

\* the outcomes left while clients can still be made
ConnectOutcomesNow(s) ==
  IF s.bot < MaxClients THEN ConnectOutcomes ELSE {"CircuitOpen"}

\* connect() failed
NotConnected(s, outcome) ==
  IF outcome = "exhausted" THEN [s EXCEPT !.bot = @ + 1] ELSE s

\* main(): await monitor.connect(); global.monitor = monitor
SessionConnect ==
  /\ Alive
  /\ sup.pc = "start"
  /\ \E outcome \in ConnectOutcomesNow(sup) :
       /\ hasBot' = (hasBot \/ outcome # "CircuitOpen")
       /\ IF outcome = "connected"
            THEN /\ sup' = [Connected(sup) EXCEPT !.pc = "connected", !.globalMonitor = TRUE]
                 /\ isConnected' = TRUE
                 /\ reconnectAttempts' = 0
            ELSE /\ sup' = [NotConnected(sup, outcome) EXCEPT !.pc = "failed"]
                 /\ UNCHANGED <<isConnected, reconnectAttempts>>
  /\ UNCHANGED <<sd, notSession>>

\* main(): await monitor.startMonitoring(), lines 108-139: connect() if not
\* connected, then both observers are subscribed on this.bot
SessionStartMonitoring ==
  /\ Alive
  /\ sup.pc = "connected"
  /\ IF ~(~isConnected \/ ~hasBot)
       THEN /\ sup' = [sup EXCEPT !.pc = "monitoring", !.observed = @ \cup {sup.bot}]
            /\ UNCHANGED <<isConnected, reconnectAttempts>>
       ELSE \E outcome \in ConnectOutcomesNow(sup) :
              IF outcome = "connected"
                THEN /\ sup' = [Connected(sup) EXCEPT
                                  !.pc = "monitoring", !.observed = @ \cup {sup.bot + 1}]
                     /\ isConnected' = TRUE
                     /\ reconnectAttempts' = 0
                ELSE /\ sup' = [NotConnected(sup, outcome) EXCEPT !.pc = "failed"]
                     /\ UNCHANGED <<isConnected, reconnectAttempts>>
  /\ UNCHANGED <<hasBot, sd, notSession>>

\* a client raises "error" or "disconnect", or an observer raises error:
\* handleDisconnect() up to its delay, or to its throw
SessionDisconnect ==
  /\ Alive
  /\ hasBot
  /\ sup.delayed < MaxDelayed
  /\ isConnected' = FALSE
  /\ IF HDMayReconnect(reconnectAttempts)
       THEN /\ reconnectAttempts' = reconnectAttempts + 1
            /\ sup' = [sup EXCEPT !.delayed = @ + 1]
       ELSE UNCHANGED <<reconnectAttempts, sup>>
  /\ UNCHANGED <<hasBot, sd, notSession>>

\* handleDisconnect() without a call of startMonitoring(): the observers stay
\* where they were
ObservedAfterReconnect(observed, bot) == observed

\* handleDisconnect(): the delay is over, await this.connect(); nothing follows
SessionReconnect ==
  /\ Alive
  /\ sup.delayed > 0
  /\ IF ConnectSkips(isConnected)
       THEN /\ sup' = [sup EXCEPT !.delayed = @ - 1]
            /\ UNCHANGED <<isConnected, reconnectAttempts>>
       ELSE \E outcome \in ConnectOutcomesNow(sup) :
              IF outcome = "connected"
                THEN /\ sup' = [Connected(sup) EXCEPT
                                  !.delayed = @ - 1, !.reconnected = TRUE,
                                  !.observed = ObservedAfterReconnect(@, sup.bot + 1)]
                     /\ isConnected' = TRUE
                     /\ reconnectAttempts' = 0
                ELSE /\ sup' = [NotConnected(sup, outcome) EXCEPT !.delayed = @ - 1]
                     /\ UNCHANGED <<isConnected, reconnectAttempts>>
  /\ UNCHANGED <<hasBot, sd, notSession>>

\* handlers running, over both accounts
PendingHandlers(s) ==
  s.pending["SUBSCRIPTION_PAYMENT_ACCOUNT"] + s.pending["AI_PAYMENT_ACCOUNT"]

\* An observed client delivers an operation of account a: observerHandler.next
\* is called and starts processOperation, whatever earlier calls are doing.
Deliver ==
  \E a \in StreamAccounts :
    /\ Alive
    /\ sup.observed \cap sup.started # {}
    /\ sup.pending[a] < MaxPending
    /\ sup' = [sup EXCEPT
                 !.pending[a] = @ + 1,
                 !.isolation = IF @ = "failed" /\ PendingHandlers(sup) = 0
                                 THEN "deliveredAfter" ELSE @]
    /\ sd' = [sd EXCEPT !.dispatchedAfterStop = @ \/ sd.stopReturned]
    /\ UNCHANGED <<isConnected, reconnectAttempts, hasBot, notSession>>

\* the handler with no try/catch: an error ends the subscription
ObservedAfterItemUncaught(observed, outcome) ==
  IF outcome = "threw" THEN {} ELSE observed

\* observerHandler.next, lines 118-123: whatever processOperation does, the
\* error is caught and logged and the observers stay subscribed
ObservedAfterItem(observed, outcome) == observed

\* a call of processOperation settles
HandlerSettles ==
  \E a \in StreamAccounts, outcome \in HandlerOutcomes :
    /\ Alive
    /\ sup.pending[a] > 0
    /\ sup' = [sup EXCEPT
                 !.pending[a] = @ - 1,
                 !.observed = ObservedAfterItem(@, outcome),
                 !.lastSettled = outcome,
                 !.isolation =
                   IF outcome # "done" /\ @ = "none" THEN "failed"
                   ELSE IF outcome = "done" /\ @ = "deliveredAfter"
                          /\ PendingHandlers(sup) = 1 THEN "processedAfter"
                   ELSE @]
    /\ UNCHANGED <<isConnected, reconnectAttempts, hasBot, sd, notSession>>

\* stop(): the client is disconnected only `if (this.client)`
StopCloses(client) == client

\* SIGTERM or SIGINT: shutdown() up to `await global.healthCheck.stop()`;
\* monitor.stop() (lines 211-227) has run if global.monitor is set
ShutdownSignal ==
  /\ sd.pc = "none"
  /\ sd' = [sd EXCEPT !.pc = "healthStopping", !.stopReturned = sup.globalMonitor]
  /\ sup' = IF sup.globalMonitor /\ StopCloses(sup.client)
              THEN [sup EXCEPT !.started = {}, !.observed = {}, !.client = FALSE]
              ELSE sup
  /\ UNCHANGED <<isConnected, reconnectAttempts, hasBot, notSession>>

\* healthCheck.stop() resolves: await db.end()
HealthStopResolves ==
  /\ sd.pc = "healthStopping"
  /\ sd' = [sd EXCEPT !.pc = "poolEnding", !.poolEndCalled = TRUE]
  /\ UNCHANGED <<isConnected, reconnectAttempts, hasBot, sup, notSession>>

\* healthCheck.stop() rejects (server.close reports an error): the catch
\* block, process.exit(1)
HealthStopRejects ==
  /\ sd.pc = "healthStopping"
  /\ sd' = [sd EXCEPT !.pc = "exited", !.exitCode = 1]
  /\ UNCHANGED <<isConnected, reconnectAttempts, hasBot, sup, notSession>>

\* db.end() resolves (process.exit(0)) or rejects (process.exit(1))
PoolEndSettles ==
  /\ sd.pc = "poolEnding"
  /\ \E ok \in BOOLEAN :
       sd' = [sd EXCEPT !.pc = "exited", !.exitCode = IF ok THEN 0 ELSE 1]
  /\ UNCHANGED <<isConnected, reconnectAttempts, hasBot, sup, notSession>>

SessionNext ==
  \/ SessionConnect
  \/ SessionStartMonitoring
  \/ SessionDisconnect
  \/ SessionReconnect
  \/ Deliver
  \/ HandlerSettles
  \/ ShutdownSignal
  \/ HealthStopResolves
  \/ HealthStopRejects
  \/ PoolEndSettles

(***************************************************************************)
(* The WorkerBee clients: connect(), its retry attempts, the event         *)
(* handlers it attaches, startMonitoring() and handleDisconnect(), with    *)
(* each client told apart.  A client is the serial number of a             *)
(* `new WorkerBee()`; caller 0 is main(), the others are calls of          *)
(* handleDisconnect() in progress.                                         *)
(***************************************************************************)
\* Bounds: the clients made, and the handleDisconnect() calls in progress.
MaxWorkerBees == 5
MaxHD == 1

HDCallers == 1..MaxHD
Callers == {0} \cup HDCallers

\* bot.on("error"), bot.on("disconnect") (lines 75-83)
ClientEvents == {"error", "disconnect"}

\* observerHandler.error, observerHandler.complete (lines 125-131)
ObserverEvents == {"observerError", "observerComplete"}

IdleCall == [pc |-> "idle", attempt |-> 0, client |-> 0]

NoEvent == [kind |-> "none", ran |-> FALSE, connectedAfter |-> FALSE,
            observerAfter |-> "null", attemptsBefore |-> 0, delayed |-> FALSE,
            replaced |-> FALSE, connectedBefore |-> FALSE]

\* constructor: bot = null, observer = null; no client made, main() at its start
NoClients ==
  [made |-> 0, bot |-> 0, observer |-> "null",
   status |-> [i \in 1..MaxWorkerBees |-> "none"],
   call |-> [c \in Callers |-> IdleCall],
   mainPhase |-> "start", observedOn |-> {},
   staleEvent |-> FALSE, lastEvent |-> NoEvent]

InitClients ==
  /\ breaker = HiveBreaker
  /\ clock = 0
  /\ isConnected = FALSE
  /\ reconnectAttempts = 0
  /\ hasBot = FALSE
  /\ cl = NoClients

notClients ==
  <<inFlight, cbCall, cbStreak, cbLastFail, cbProbe, retryVars, mainCalled, tasks,
    monitorObs, ledgerVars, streamVars, scanVars, sessionVars, raceVars, dbVars, orderVars>>

\* lines 114-136: both observers are made from this.bot and subscribed
Subscribe(k) == [k EXCEPT !.observedOn = @ \cup {k.bot}, !.mainPhase = "monitoring"]

\* connect() has returned (ok) or thrown to caller c: main() goes on to
\* findTransactions and the rest (lines 556-572), startMonitoring() goes on to
\* subscribe, main()'s catch block ends it; handleDisconnect() just ends
AfterConnect(k, c, ok) ==
  LET ended == [k EXCEPT !.call[c] = IdleCall]
  IN IF c # 0 THEN ended
     ELSE IF ~ok THEN [ended EXCEPT !.mainPhase = "failed"]
     ELSE IF k.mainPhase = "startMonitoring" THEN Subscribe(ended)
     ELSE [ended EXCEPT !.mainPhase = "scan"]

\* lines 73-85: this.bot = new WorkerBee(), the two handlers attached, and
\* `await this.bot.start()`
NewClient(k, c, attempt) ==
  [k EXCEPT !.made = @ + 1,
            !.bot = k.made + 1,
            !.status[k.made + 1] = "starting",
            !.call[c] = [pc |-> "botStart", attempt |-> attempt, client |-> k.made + 1]]

\* connect() from its entry to its first await, called by c in state k
ClConnectEnter(c, k) ==
  IF ConnectSkips(isConnected)
    THEN /\ cl' = AfterConnect(k, c, TRUE)
         /\ UNCHANGED <<breaker, hasBot>>
    ELSE IF CBRejects(breaker, clock)
      THEN /\ cl' = AfterConnect(k, c, FALSE)
           /\ UNCHANGED <<breaker, hasBot>>
      ELSE /\ k.made < MaxWorkerBees
           /\ breaker' = CBAdmit(breaker, clock)
           /\ hasBot' = TRUE
           /\ cl' = NewClient(k, c, 1)

\* main(): await monitor.connect()
ClMainConnect ==
  /\ cl.mainPhase = "start"
  /\ ClConnectEnter(0, [cl EXCEPT !.mainPhase = "connect"])
  /\ UNCHANGED <<clock, isConnected, reconnectAttempts, notClients>>

\* main(): await monitor.startMonitoring(), lines 108-139
ClStartMonitoring ==
  /\ cl.mainPhase = "scan"
  /\ IF ~isConnected \/ cl.bot = 0
       THEN ClConnectEnter(0, [cl EXCEPT !.mainPhase = "startMonitoring"])
       ELSE /\ cl' = Subscribe(cl)
            /\ UNCHANGED <<breaker, hasBot>>
  /\ UNCHANGED <<clock, isConnected, reconnectAttempts, notClients>>

\* `await this.bot.start()` resolves for caller c: lines 86-88, success(), and
\* connect() returns
ClBotStartResolves ==
  \E c \in Callers :
    /\ cl.call[c].pc = "botStart"
    /\ isConnected' = TRUE
    /\ reconnectAttempts' = 0
    /\ breaker' = CBSuccess(breaker)
    /\ cl' = AfterConnect([cl EXCEPT !.status[cl.call[c].client] = "started"], c, TRUE)
    /\ UNCHANGED <<clock, hasBot, notClients>>

\* `await this.bot.start()` rejects for caller c: the retry executor's catch
\* block; on the last attempt failure() and connect() throws
ClBotStartRejects ==
  \E c \in Callers :
    /\ cl.call[c].pc = "botStart"
    /\ LET k == [cl EXCEPT !.status[cl.call[c].client] = "failed"]
       IN IF RetryGivesUp(HiveRetry, cl.call[c].attempt)
            THEN /\ breaker' = CBFailure(breaker, clock)
                 /\ cl' = AfterConnect(k, c, FALSE)
            ELSE /\ cl' = [k EXCEPT !.call[c].pc = "backoff"]
                 /\ UNCHANGED breaker
    /\ UNCHANGED <<clock, isConnected, reconnectAttempts, hasBot, notClients>>

\* the retry executor's backoff is over: attempt++, and the operation again
ClBackoffOver ==
  \E c \in Callers :
    /\ cl.call[c].pc = "backoff"
    /\ cl.made < MaxWorkerBees
    /\ cl' = NewClient(cl, c, cl.call[c].attempt + 1)
    /\ UNCHANGED <<breaker, clock, isConnected, reconnectAttempts, hasBot, notClients>>

\* which notifications call this.handleDisconnect(): lines 75-83 and 125-131
EventRunsHandleDisconnect(kind) ==
  kind \in {"error", "disconnect", "observerError"}

\* handleDisconnect() that leaves isConnected alone
HDFirstEffectNone(connected) == connected

\* handleDisconnect(), line 94: this.isConnected = false
HDFirstEffect(connected) == FALSE

\* Client i raises a notification of the given kind and its handler runs; when
\* it calls handleDisconnect(), that runs as call c up to its delay (line 100)
\* or to its throw (line 104).  Every client made still has the handlers of
\* lines 75-83; the observers are those of the clients subscribed on.
ClEmit ==
  \E i \in 1..MaxWorkerBees, kind \in ClientEvents \cup ObserverEvents, c \in HDCallers :
    /\ cl.status[i] # "none"
    /\ kind \in ObserverEvents => i \in cl.observedOn
    /\ cl.call[c].pc = "idle"
    /\ \A d \in HDCallers : d < c => cl.call[d].pc # "idle"
    /\ IF EventRunsHandleDisconnect(kind)
         THEN /\ isConnected' = HDFirstEffect(isConnected)
              /\ LET k == [cl EXCEPT
                             !.observer = "null",
                             !.staleEvent = @ \/ cl.status[i] = "failed",
                             !.lastEvent =
                               [kind |-> kind, ran |-> TRUE,
                                connectedAfter |-> HDFirstEffect(isConnected),
                                observerAfter |-> "null",
                                attemptsBefore |-> reconnectAttempts,
                                delayed |-> HDMayReconnect(reconnectAttempts),
                                replaced |-> i < cl.bot,
                                connectedBefore |-> isConnected]]
                 IN IF HDMayReconnect(reconnectAttempts)
                      THEN /\ reconnectAttempts' = reconnectAttempts + 1
                           /\ cl' = [k EXCEPT !.call[c].pc = "delay"]
                      ELSE /\ cl' = k
                           /\ UNCHANGED reconnectAttempts
         ELSE /\ cl' = [cl EXCEPT
                          !.lastEvent =
                            [kind |-> kind, ran |-> FALSE,
                             connectedAfter |-> isConnected,
                             observerAfter |-> cl.observer,
                             attemptsBefore |-> reconnectAttempts,
                             delayed |-> FALSE,
                             replaced |-> i < cl.bot,
                             connectedBefore |-> isConnected]]
              /\ UNCHANGED <<isConnected, reconnectAttempts>>
    /\ UNCHANGED <<breaker, clock, hasBot, notClients>>

\* handleDisconnect(): the delay is over, await this.connect() (line 101)
ClReconnect ==
  \E c \in HDCallers :
    /\ cl.call[c].pc = "delay"
    /\ ClConnectEnter(c, cl)
    /\ UNCHANGED <<clock, isConnected, reconnectAttempts, notClients>>

ClientsNext ==
  \/ ClMainConnect
  \/ ClStartMonitoring
  \/ ClBotStartResolves
  \/ ClBotStartRejects
  \/ ClBackoffOver
  \/ ClEmit
  \/ ClReconnect

(***************************************************************************)
(* Calls of addSubscription in progress at once: the SELECT and the upsert *)
(* are separate awaits, so the steps of two calls can interleave.          *)
(***************************************************************************)
\* Bound: the calls in progress at once.
MaxGrants == 2

GrantCalls == 1..MaxGrants

\* the username both calls are for
RaceUser == "alice"

IdleGrant == [pc |-> "idle", days |-> 0, subscriptionDate |-> 0,
              expirationDate |-> 0, raced |-> FALSE]

NoUpsert == [done |-> FALSE, raced |-> FALSE, subscriptionDate |-> 0, days |-> 0]

NoRace == [call |-> [g \in GrantCalls |-> IdleGrant], lastUpsert |-> NoUpsert]

notRace ==
  <<breakerVars, retryVars, monitorVars, monitorObs, streamVars, scanVars, sessionVars,
    clientVars, dbVars, orderVars>>

\* the calls between their SELECT's answer and their upsert
Upserting(r) == {g \in GrantCalls : r.call[g].pc = "upsert"}

\* addSubscription(username, days) up to `await db.query(SELECT ...)`,
\* lines 418-427
RaceBegin ==
  \E g \in GrantCalls, days \in GrantDays :
    /\ race.call[g].pc = "idle"
    /\ \A h \in GrantCalls : h < g => race.call[h].pc # "idle"
    /\ race' = [race EXCEPT
                  !.call[g] = [IdleGrant EXCEPT
                                 !.pc = "select", !.days = days,
                                 !.subscriptionDate = now]]
    /\ UNCHANGED <<ledgerVars, notRace>>

\* the SELECT is answered (or fails): lines 429-445, up to the upsert's await
RaceSelect ==
  \E g \in GrantCalls, readOk \in BOOLEAN :
    LET c == race.call[g]
        row == subs[RaceUser]
    IN /\ c.pc = "select"
       /\ IF ~readOk \/ (row.exists /\ ~GrantLapsed(row, c.subscriptionDate))
            THEN race' = [race EXCEPT !.call[g] = IdleGrant]
            ELSE race' =
                   [race EXCEPT
                      !.call = [h \in GrantCalls |->
                                  IF h = g
                                    THEN [c EXCEPT
                                            !.pc = "upsert",
                                            !.expirationDate =
                                              GrantExpiration(row, c.subscriptionDate, c.days),
                                            !.raced = Upserting(race) # {}]
                                  ELSE IF h \in Upserting(race)
                                    THEN [race.call[h] EXCEPT !.raced = TRUE]
                                  ELSE race.call[h]]]
       /\ UNCHANGED <<ledgerVars, notRace>>

\* the upsert runs (or fails): lines 448-467
RaceUpsert ==
  \E g \in GrantCalls, writeOk \in BOOLEAN :
    LET c == race.call[g]
    IN /\ c.pc = "upsert"
       /\ IF writeOk
            THEN /\ subs' = [subs EXCEPT
                               ![RaceUser] = Row(c.subscriptionDate, c.expirationDate, now, TRUE)]
                 /\ race' = [race EXCEPT
                               !.call[g] = IdleGrant,
                               !.lastUpsert =
                                 [done |-> TRUE, raced |-> c.raced,
                                  subscriptionDate |-> c.subscriptionDate,
                                  days |-> c.days]]
            ELSE /\ race' = [race EXCEPT !.call[g] = IdleGrant]
                 /\ UNCHANGED subs
       /\ UNCHANGED <<now, lastOp, refExp, payment, notRace>>

\* a day passes
RaceNextDay ==
  /\ \E start \in StartDays : start <= now /\ now < start + MaxElapsed
  /\ now' = now + 1
  /\ UNCHANGED <<subs, lastOp, refExp, payment, race, notRace>>

RaceNext ==
  \/ RaceBegin
  \/ RaceSelect
  \/ RaceUpsert
  \/ RaceNextDay

(***************************************************************************)
(* Database.query and its callers: the sweep (checkExpiredSubscriptions)   *)
(* and a streamed operation (processOperation -> processSubscriptionTransfer*)
(* -> addSubscription).  One call is in progress at a time.                *)
(***************************************************************************)
\* db.js: this.circuitBreaker (failureThreshold 5, resetTimeout 30000)
DbBreaker == NewBreaker(5, 30000)

\* db.js: this.retry (maxAttempts 3, delay 1000, backoffFactor 2)
DbRetry == NewRetry(3, 1000, <<2, 1>>)

\* A streamed operation is a qualifying transfer, or one whose classification
\* throws (its amount is not a string, say)
ItemKinds == {"qualifying", "malformed"}

NoQuery == [result |-> "none", issued |-> 0, retryEntered |-> FALSE]

NoSweep == [done |-> FALSE, result |-> "none", updated |-> FALSE, heartbeat |-> FALSE,
            threw |-> FALSE, logged |-> FALSE, issued |-> 0, queries |-> 0]

NoItem == [done |-> FALSE, kind |-> "none", grantFailed |-> FALSE, threw |-> FALSE,
           procAttempts |-> 0, grants |-> 0]

\* nothing in progress
NoDb ==
  [op |-> "none", kind |-> "none", pc |-> "idle", stage |-> "none",
   attempt |-> 0, issued |-> 0, procAttempt |-> 0, grants |-> 0,
   openSeen |-> FALSE, reissued |-> FALSE, invoked |-> 0,
   lastQuery |-> NoQuery, sweep |-> NoSweep, item |-> NoItem]

InitDb ==
  /\ breaker = DbBreaker
  /\ clock = 0
  /\ dbq = NoDb

notDb ==
  <<inFlight, cbCall, cbStreak, cbLastFail, cbProbe, retryVars, monitorVars, monitorObs,
    ledgerVars, streamVars, scanVars, sessionVars, clientVars, raceVars, orderVars>>

\* the task has ended; what the last query, sweep and item did is kept, and
\* the count of pool.query calls made since the breaker last had no failure
DbIdle(k) ==
  [NoDb EXCEPT !.lastQuery = k.lastQuery, !.sweep = k.sweep, !.item = k.item,
               !.reissued = k.reissued, !.invoked = k.invoked]

\* checkExpiredSubscriptions: a sweep that signals whatever db.query did
SweepSignalsAlways(result) == TRUE

\* checkExpiredSubscriptions, line 528: updateLastCheck() is reached only
\* when `await db.query(query)` resolved
SweepSignals(result) == result = "resolved"

\* checkExpiredSubscriptions with no catch block
SweepRethrowsFailure(result) == result # "resolved"

\* checkExpiredSubscriptions, lines 529-534: the catch block logs and returns
SweepRethrows(result) == FALSE

\* addSubscription with no catch block: a failed query reaches the retry
\* executor of processOperation
ItemThrowsOnGrantFailure(kind, result) == kind = "malformed" \/ result # "resolved"

\* does the operation handed to processOperation's retry executor throw?
\* addSubscription's catch (lines 468-475) turns a failed query into `false`,
\* and lines 182-205 catch what is left, so only the classification can throw
ItemThrows(kind, result) == kind = "malformed"

\* the item has been given up or dealt with
ItemEnded(k, failed, threw) ==
  [DbIdle(k) EXCEPT
     !.item = [done |-> TRUE, kind |-> k.kind, grantFailed |-> failed, threw |-> threw,
               procAttempts |-> k.procAttempt, grants |-> k.grants]]

\* processOperation's retry executor: attempt k.procAttempt of the operation
\* has thrown
ItemAttemptThrew(k) ==
  IF RetryGivesUp(HiveRetry, k.procAttempt)
    THEN ItemEnded(k, k.grants > 0, TRUE)
    ELSE [k EXCEPT !.pc = "itemBackoff", !.stage = "none", !.attempt = 0, !.issued = 0]

\* db.query has resolved or rejected to its caller in state k
DbQueryEnded(k, result) ==
  LET q == [result |-> result, issued |-> k.issued, retryEntered |-> k.attempt > 0]
      kq == [k EXCEPT !.lastQuery = q, !.openSeen = @ \/ result = "CircuitOpen"]
  IN IF k.op = "sweep"
       THEN [DbIdle(kq) EXCEPT
               !.sweep = [done |-> TRUE, result |-> result,
                          updated |-> result = "resolved",
                          heartbeat |-> SweepSignals(result),
                          threw |-> SweepRethrows(result),
                          logged |-> result # "resolved",
                          issued |-> k.issued, queries |-> 1]]
     ELSE IF result = "resolved"
       THEN IF k.stage = "select"
              THEN [kq EXCEPT !.pc = "betweenQueries", !.attempt = 0, !.issued = 0]
              ELSE ItemEnded(kq, FALSE, FALSE)
     ELSE IF ItemThrows(k.kind, result)
       THEN ItemAttemptThrew(kq)
       ELSE ItemEnded(kq, TRUE, FALSE)

\* Database.query, lines 55-56: the breaker's guard, then the retry
\* executor's first `await this.pool.query(text, params)`
DbQueryEnter(k) ==
  LET kr == [k EXCEPT !.reissued = @ \/ k.openSeen]
  IN IF CBRejects(breaker, clock)
       THEN /\ dbq' = DbQueryEnded([kr EXCEPT !.attempt = 0, !.issued = 0], "CircuitOpen")
            /\ UNCHANGED breaker
       ELSE /\ breaker' = CBAdmit(breaker, clock)
            /\ dbq' = [kr EXCEPT !.pc = "poolQuery", !.attempt = 1, !.issued = 1,
                                 !.invoked = (IF breaker.isOpen THEN 0 ELSE @) + 1]

\* the sweep timer fires (or main() makes its first check):
\* checkExpiredSubscriptions up to `await db.query(query)`
DbSweepStart ==
  /\ dbq.op = "none"
  /\ DbQueryEnter([dbq EXCEPT !.op = "sweep", !.reissued = FALSE])
  /\ UNCHANGED <<clock, notDb>>

\* One attempt of the operation processOperation hands to its retry executor
\* (lines 142-208): the classification, then for a qualifying transfer
\* addSubscription up to its SELECT
ItemAttempt(k) ==
  IF k.kind = "malformed"
    THEN /\ dbq' = ItemAttemptThrew(k)
         /\ UNCHANGED breaker
    ELSE DbQueryEnter([k EXCEPT !.stage = "select", !.grants = @ + 1])

\* the observer delivers an operation: processOperation, first attempt
DbItemStart ==
  \E kind \in ItemKinds :
    /\ dbq.op = "none"
    /\ ItemAttempt([dbq EXCEPT !.op = "item", !.kind = kind, !.procAttempt = 1,
                               !.reissued = FALSE])
    /\ UNCHANGED <<clock, notDb>>

\* processOperation's retry executor: the wait is over, the next attempt
DbItemBackoffOver ==
  /\ dbq.pc = "itemBackoff"
  /\ ItemAttempt([dbq EXCEPT !.procAttempt = @ + 1])
  /\ UNCHANGED <<clock, notDb>>

\* addSubscription after its SELECT: the window is still open (return true),
\* or the upsert is issued
DbItemAfterSelect ==
  /\ dbq.pc = "betweenQueries"
  /\ \/ /\ dbq' = ItemEnded(dbq, FALSE, FALSE)
        /\ UNCHANGED breaker
     \/ DbQueryEnter([dbq EXCEPT !.stage = "upsert"])
  /\ UNCHANGED <<clock, notDb>>

\* pool.query resolves: the retry executor and the breaker return (success())
DbPoolQueryResolves ==
  /\ dbq.pc = "poolQuery"
  /\ breaker' = CBSuccess(breaker)
  /\ dbq' = [DbQueryEnded(dbq, "resolved") EXCEPT !.invoked = 0]
  /\ UNCHANGED <<clock, notDb>>

\* pool.query rejects: the retry executor waits, or on its last attempt
\* rethrows through the breaker (failure())
DbPoolQueryRejects ==
  /\ dbq.pc = "poolQuery"
  /\ IF RetryGivesUp(DbRetry, dbq.attempt)
       THEN /\ breaker' = CBFailure(breaker, clock)
            /\ dbq' = DbQueryEnded(dbq, "rejected")
       ELSE /\ dbq' = [dbq EXCEPT !.pc = "backoff"]
            /\ UNCHANGED breaker
  /\ UNCHANGED <<clock, notDb>>

\* the retry executor's wait is over: the statement is issued again
DbBackoffOver ==
  /\ dbq.pc = "backoff"
  /\ dbq' = [dbq EXCEPT !.pc = "poolQuery", !.attempt = @ + 1, !.issued = @ + 1,
                         !.invoked = @ + 1]
  /\ UNCHANGED <<breaker, clock, notDb>>

\* time passes
DbTick ==
  /\ clock < MaxClockSteps * ClockStep
  /\ clock' = clock + ClockStep
  /\ UNCHANGED <<breaker, dbq, notDb>>

DbNext ==
  \/ DbSweepStart
  \/ DbItemStart
  \/ DbItemBackoffOver
  \/ DbItemAfterSelect
  \/ DbPoolQueryResolves
  \/ DbPoolQueryRejects
  \/ DbBackoffOver
  \/ DbTick

(***************************************************************************)
(* Two qualifying transfers of one user, processed in the one order and in *)
(* the other: processSubscriptionTransfer -> addSubscription twice.        *)
(***************************************************************************)
\* the rows the user may hold before the transfers: none, or the row left by
\* a grant made on an earlier or the same start day
OrderRows(today) ==
  {NoRow} \cup
    {Row(s, GrantExpiration(NoRow, s, d), s, TRUE) :
       s \in {x \in StartDays : x <= today}, d \in GrantDays}

NoOrder ==
  [today |-> 0, start |-> NoRow, a |-> 0, b |-> 0, done |-> 0, gap |-> 0,
   ab |-> NoRow, ab1 |-> NoRow, ba |-> NoRow, ba1 |-> NoRow]

\* transfers granting a and b days, and the row before them
InitOrder ==
  \E today \in StartDays, a \in GrantDays, b \in GrantDays :
    \E start \in OrderRows(today) :
      ord = [NoOrder EXCEPT !.today = today, !.start = start, !.a = a, !.b = b,
                            !.ab = start, !.ba = start]

notOrder ==
  <<breakerVars, retryVars, monitorVars, monitorObs, ledgerVars, streamVars, scanVars,
    sessionVars, clientVars, raceVars, dbVars>>

\* the transfer processed first: addSubscription(username, a) in the one
\* order, addSubscription(username, b) in the other
OrderFirst ==
  /\ ord.done = 0
  /\ LET ab == AddSubscription(ord.start, ord.today, ord.a, TRUE, TRUE).row
         ba == AddSubscription(ord.start, ord.today, ord.b, TRUE, TRUE).row
     IN ord' = [ord EXCEPT !.done = 1, !.ab = ab, !.ab1 = ab, !.ba = ba, !.ba1 = ba]
  /\ UNCHANGED notOrder

\* a day passes between the two transfers
OrderDayPasses ==
  /\ ord.done = 1
  /\ ord.gap < MaxElapsed
  /\ ord' = [ord EXCEPT !.today = @ + 1, !.gap = @ + 1]
  /\ UNCHANGED notOrder

\* the transfer processed second
OrderSecond ==
  /\ ord.done = 1
  /\ ord' = [ord EXCEPT
               !.done = 2,
               !.ab = AddSubscription(ord.ab, ord.today, ord.b, TRUE, TRUE).row,
               !.ba = AddSubscription(ord.ba, ord.today, ord.a, TRUE, TRUE).row]
  /\ UNCHANGED notOrder

OrderNext ==
  \/ OrderFirst
  \/ OrderDayPasses
  \/ OrderSecond

(***************************************************************************)
(* Specifications                                                          *)
(***************************************************************************)
\* A component a specification does not exercise stays as the database
\* module constructs it (src/db.js 24-35).
BreakerAtRest ==
  /\ breaker = NewBreaker(5, 30000)
  /\ clock = 0
  /\ inFlight = 0
  /\ cbCall = NoCall
  /\ cbStreak = 0
  /\ cbLastFail = 0
  /\ cbProbe = "none"

RetryAtRest ==
  /\ retry = NewRetry(3, 1000, <<2, 1>>)
  /\ rAttempt = 1
  /\ rPc = "idle"
  /\ rLastError = NoOutcome
  /\ rWaits = <<>>
  /\ rErrors = <<>>
  /\ rInvoked = 0
  /\ rOutcome = NoOutcome

MonitorAtRest ==
  /\ isConnected = FALSE
  /\ reconnectAttempts = 0
  /\ hasBot = FALSE
  /\ mainCalled = FALSE
  /\ tasks = NoTasks
  /\ disconnects = 0
  /\ hdLast = NoHD
  /\ connEnded = NoEnd

BreakerObsAtRest ==
  /\ inFlight = 0
  /\ cbCall = NoCall
  /\ cbStreak = 0
  /\ cbLastFail = 0
  /\ cbProbe = "none"

\* an empty table on 1 January
LedgerAtRest ==
  /\ now = 0
  /\ subs = [u \in Users |-> NoRow]
  /\ lastOp = NoOp
  /\ refExp = [u \in Users |-> NoRow]
  /\ payment = NoPayment

ScanAtRest == scan = NoScan

SessionAtRest ==
  /\ sup = NoSession
  /\ sd = NoShutdown

ClientsAtRest == cl = NoClients

RaceAtRest == race = NoRace

DbAtRest == dbq = NoDb

OrderAtRest == ord = NoOrder

StreamAtRest ==
  /\ env = CHOOSE e \in Envs : e.SUBSCRIPTION_ACCOUNT = <<"l", "e", "o">>
  /\ streamLast = NoStream

BreakerStart ==
  InitBreaker /\ RetryAtRest /\ MonitorAtRest /\ LedgerAtRest /\ StreamAtRest /\ ScanAtRest /\ SessionAtRest /\ ClientsAtRest /\ RaceAtRest /\ DbAtRest /\ OrderAtRest

RetryStart ==
  InitRetry /\ BreakerAtRest /\ MonitorAtRest /\ LedgerAtRest /\ StreamAtRest /\ ScanAtRest /\ SessionAtRest /\ ClientsAtRest /\ RaceAtRest /\ DbAtRest /\ OrderAtRest

MonitorStart ==
  InitMonitor /\ BreakerObsAtRest /\ RetryAtRest /\ LedgerAtRest /\ StreamAtRest /\ ScanAtRest /\ SessionAtRest /\ ClientsAtRest /\ RaceAtRest /\ DbAtRest /\ OrderAtRest

LedgerStart ==
  InitLedger /\ BreakerAtRest /\ RetryAtRest /\ MonitorAtRest /\ StreamAtRest /\ ScanAtRest /\ SessionAtRest /\ ClientsAtRest /\ RaceAtRest /\ DbAtRest /\ OrderAtRest

StreamStart ==
  InitStream /\ LedgerAtRest /\ BreakerAtRest /\ RetryAtRest /\ MonitorAtRest /\ ScanAtRest /\ SessionAtRest /\ ClientsAtRest /\ RaceAtRest /\ DbAtRest /\ OrderAtRest

SpecBreaker == BreakerStart /\ [][BreakerNext]_vars

SpecRetry == RetryStart /\ [][RetryNext]_vars

SpecMonitor == MonitorStart /\ [][MonitorNext]_vars

SpecLedger == LedgerStart /\ [][LedgerNext]_vars

SpecGrants == LedgerStart /\ [][GrantsNext]_vars

SpecReplay == LedgerStart /\ [][ReplayNext]_vars

SpecStream == StreamStart /\ [][StreamNext]_vars

ScanInit ==
  /\ scan = NoScan
  /\ InitStream
  /\ InitLedger
  /\ BreakerAtRest
  /\ RetryAtRest
  /\ MonitorAtRest
  /\ SessionAtRest
  /\ ClientsAtRest
  /\ RaceAtRest
  /\ DbAtRest
  /\ OrderAtRest

SpecScan == ScanInit /\ [][ScanNext]_vars

\* the monitor's other fields as its constructor leaves them
SessionStart ==
  /\ InitSession
  /\ breaker = HiveBreaker
  /\ clock = 0
  /\ BreakerObsAtRest
  /\ mainCalled = FALSE
  /\ tasks = NoTasks
  /\ disconnects = 0
  /\ hdLast = NoHD
  /\ connEnded = NoEnd
  /\ RetryAtRest
  /\ LedgerAtRest
  /\ StreamAtRest
  /\ ScanAtRest
  /\ ClientsAtRest
  /\ RaceAtRest
  /\ DbAtRest
  /\ OrderAtRest

SpecSession == SessionStart /\ [][SessionNext]_vars

\* main() goes on to startMonitoring(), timers fire, and awaited calls settle
SessionFairness ==
  /\ WF_vars(SessionStartMonitoring)
  /\ WF_vars(SessionReconnect)
  /\ WF_vars(HandlerSettles)
  /\ WF_vars(HealthStopResolves \/ HealthStopRejects)
  /\ WF_vars(PoolEndSettles)

SpecSessionLive == SessionStart /\ [][SessionNext]_vars /\ SessionFairness

\* the monitor's other fields as its constructor leaves them
ClientsStart ==
  /\ InitClients
  /\ BreakerObsAtRest
  /\ mainCalled = FALSE
  /\ tasks = NoTasks
  /\ disconnects = 0
  /\ hdLast = NoHD
  /\ connEnded = NoEnd
  /\ RetryAtRest
  /\ LedgerAtRest
  /\ StreamAtRest
  /\ ScanAtRest
  /\ SessionAtRest
  /\ RaceAtRest
  /\ DbAtRest
  /\ OrderAtRest

SpecClients == ClientsStart /\ [][ClientsNext]_vars

RaceStart ==
  /\ InitLedger
  /\ race = NoRace
  /\ BreakerAtRest
  /\ RetryAtRest
  /\ MonitorAtRest
  /\ StreamAtRest
  /\ ScanAtRest
  /\ SessionAtRest
  /\ ClientsAtRest
  /\ DbAtRest
  /\ OrderAtRest

SpecRace == RaceStart /\ [][RaceNext]_vars

DbStart ==
  /\ InitDb
  /\ BreakerObsAtRest
  /\ RetryAtRest
  /\ MonitorAtRest
  /\ LedgerAtRest
  /\ StreamAtRest
  /\ ScanAtRest
  /\ SessionAtRest
  /\ ClientsAtRest
  /\ RaceAtRest
  /\ OrderAtRest

SpecDb == DbStart /\ [][DbNext]_vars

OrderStart ==
  /\ InitOrder
  /\ BreakerAtRest
  /\ RetryAtRest
  /\ MonitorAtRest
  /\ LedgerAtRest
  /\ StreamAtRest
  /\ ScanAtRest
  /\ SessionAtRest
  /\ ClientsAtRest
  /\ RaceAtRest
  /\ DbAtRest

SpecOrder == OrderStart /\ [][OrderNext]_vars

(***************************************************************************)
(* Properties                                                              *)
(***************************************************************************)

\* C1: once failureThreshold operations in a row have failed (counted since
\* the breaker last closed), a call made before resetTimeout has passed
\* since the last failure is rejected with the circuit-open error and the
\* operation is not invoked; a call made once resetTimeout has passed
\* invokes the operation.
C1_BreakerTrips ==
  (cbCall.outcome # "none" /\ cbCall.streak >= breaker.failureThreshold) =>
    IF cbCall.sinceFail < breaker.resetTimeout
      THEN cbCall.outcome = "CircuitOpen"
      ELSE cbCall.outcome = "invoked"

\* A breaker with a threshold above 1 tripped, rejected a call, and then
\* admitted the first call made after the cooldown.
C1_Witness ==
  /\ cbCall.outcome = "invoked"
  /\ cbCall.previous = "CircuitOpen"
  /\ cbCall.streak >= breaker.failureThreshold
  /\ cbCall.sinceFail >= breaker.resetTimeout
  /\ breaker.failureThreshold > 1

\* equality of two fractions
SameFraction(a, b) == a[1] * b[2] = b[1] * a[2]

\* the fraction a multiplied by the fraction f
TimesFraction(a, f) == <<a[1] * f[1], a[2] * f[2]>>

\* C2: an operation that fails on every invocation is invoked exactly
\* maxAttempts times; the wait after attempt k is delay * backoffFactor^(k-1)
\* for k = 1..maxAttempts-1 (the first wait is delay, each later one is the
\* one before times backoffFactor) and no wait follows the final failed attempt.
C2_RetryExhaustion ==
  (rPc = "done" /\ rOutcome.kind = "thrown") =>
    /\ rInvoked = retry.maxAttempts
    /\ Len(rErrors) = rInvoked
    /\ Len(rWaits) = retry.maxAttempts - 1
    /\ Len(rWaits) >= 1 => SameFraction(rWaits[1], <<retry.delay, 1>>)
    /\ \A k \in 1..(Len(rWaits) - 1) :
         SameFraction(rWaits[k + 1], TimesFraction(rWaits[k], retry.backoffFactor))

C2_Witness ==
  /\ rPc = "done"
  /\ rOutcome.kind = "thrown"
  /\ retry.maxAttempts >= 3
  /\ retry.backoffFactor = <<3, 2>>
  /\ Len(rWaits) = retry.maxAttempts - 1

C4_ReconnectBudget ==
  hdLast.outcome # "none" =>
    IF hdLast.seen < MaxReconnectAttempts
      THEN hdLast.outcome = "reconnect"
      ELSE hdLast.outcome = "fatal"

C4_Witness ==
  /\ hdLast.outcome = "fatal"
  /\ hdLast.seen = MaxReconnectAttempts
  /\ connEnded = [caller |-> "hd", result |-> "fatal"]
  /\ reconnectAttempts = MaxReconnectAttempts

\* C5: a grant to a username whose row has an expiration_date not before now
\* (the SELECT having succeeded) changes nothing in the table and returns
\* true; so the second of two successive grants of the same (username, days)
\* writes nothing.
C5_ActiveWindowIsNoOp ==
  (lastOp.op = "addSubscription" /\ lastOp.readOk /\ lastOp.windowOpen) =>
    /\ ~lastOp.wrote
    /\ lastOp.returned

\* The second of two successive grants of the same (username, days): the first
\* wrote the row, the second left it as it was.
C5_Witness ==
  /\ lastOp.op = "addSubscription"
  /\ lastOp.repeat
  /\ lastOp.readOk
  /\ lastOp.windowOpen
  /\ ~lastOp.wrote
  /\ lastOp.returned
  /\ subs[lastOp.user].subscription_date = now

\* C6: after any sequence of grants to a username, its expiration_date is the
\* one the merge rule gives: grant time + days of the last grant that found
\* no row or a lapsed one, which is the maximum over such grants.
C6_ExpirationIsMergeMax ==
  \A u \in Users :
    subs[u].exists =>
      /\ refExp[u].exists
      /\ subs[u].expiration_date = refExp[u].expiration_date

SweepStep ==
  /\ lastOp'.op = "sweep"
  /\ lastOp'.returned
  /\ (lastOp' # lastOp \/ subs' # subs)

\* C8: the sweep turns every row with expiration_date < now and active = true
\* to active = false, changing nothing else in it, and lists its username; it
\* leaves every other row as it was and does not list it.
C8_SweepFrame ==
  [][SweepStep =>
       \A u \in Users :
         IF subs[u].exists /\ subs[u].expiration_date < now /\ subs[u].active_subscription
           THEN /\ subs'[u] = [subs[u] EXCEPT !.active_subscription = FALSE]
                /\ u \in lastOp'.usernames
           ELSE /\ subs'[u] = subs[u]
                /\ u \notin lastOp'.usernames]_vars

\* One sweep deactivated alice's lapsed row and left bob's running one alone.
C8_Witness ==
  /\ lastOp.op = "sweep"
  /\ lastOp.returned
  /\ lastOp.usernames = {"alice"}
  /\ ~subs["alice"].active_subscription
  /\ subs["alice"].expiration_date < now
  /\ subs["bob"].exists
  /\ subs["bob"].active_subscription
  /\ subs["bob"].expiration_date >= now

\* the standard product's transfer, its memo compared without regard to case
StandardPayment(e, op) ==
  /\ op.isArray
  /\ op.type = "transfer"
  /\ op.to = e.SUBSCRIPTION_PAYMENT_ACCOUNT
  /\ op.amount = <<e.SUBSCRIPTION_AMOUNT, "HBD">>
  /\ ToLowerCase(op.memo) = ToLowerCase(SubscribePrefix \o e.SUBSCRIPTION_ACCOUNT)

\* C9: a transfer to the subscription account of the configured amount in HBD
\* whose memo equals 'subscribe:<account>' in any letter case is handed to
\* addSubscription for the sender with the product's 31 days.
C9_CaseInsensitiveMemoGrants ==
  StandardPayment(env, streamLast.op) =>
    /\ streamLast.granted
    /\ streamLast.days = 31

\* an operation that differs from the standard product in type, destination,
\* amount, currency or memo
DiffersFromStandard(e, op) ==
  \/ ~op.isArray
  \/ op.type \notin {"transfer", "fill_recurrent_transfer"}
  \/ op.to # e.SUBSCRIPTION_PAYMENT_ACCOUNT
  \/ op.amount[1] # e.SUBSCRIPTION_AMOUNT
  \/ op.amount[2] # "HBD"
  \/ ToLowerCase(op.memo) # ToLowerCase(SubscribePrefix \o e.SUBSCRIPTION_ACCOUNT)

\* a payment for one of the AI products
AIPayment(e, op) ==
  /\ op.isArray
  /\ op.type \in {"transfer", "fill_recurrent_transfer"}
  /\ op.to = e.AI_PAYMENT_ACCOUNT
  /\ op.amount[2] = "HBD"
  /\ op.amount[1] \in {e.AI_SUBSCRIPTION_FULL_AMOUNT, e.AI_SUBSCRIPTION_MINI_AMOUNT}

Ignored ==
  /\ ~streamLast.granted
  /\ ~streamLast.changed
  /\ ~streamLast.errorLogged

C20_FailedProbeReopens ==
  cbProbe = "failed" =>
    /\ breaker.isOpen
    /\ breaker.lastFailureTime = <<cbLastFail>>

\* a step of addSubscription that returned true
GrantReturns ==
  /\ lastOp'.op = "addSubscription"
  /\ lastOp'.returned
  /\ (lastOp' # lastOp \/ subs' # subs)

\* C14: a grant that finds no row, or a row with now > expiration_date, leaves
\* the row with subscription_date = now, expiration_date = now + days and
\* active = true, wherever in the calendar now is.
C14_GrantSetsNowPlusDays ==
  [][(/\ GrantReturns
      /\ \/ ~subs[lastOp'.user].exists
         \/ now > subs[lastOp'.user].expiration_date) =>
       /\ subs'[lastOp'.user].exists
       /\ subs'[lastOp'.user].subscription_date = now
       /\ subs'[lastOp'.user].expiration_date = now + lastOp'.days
       /\ subs'[lastOp'.user].active_subscription]_vars

\* C15: however often and whenever a processed payment is delivered again,
\* the payer's expiration_date stays what the first processing left.
C15_ReplayKeepsExpiration ==
  payment.made =>
    subs[payment.user].expiration_date = payment.expiration_date

\* the transfers findTransactions has handed to processSubscriptionTransfer
HandledTransfers == [i \in 1..Len(scan.handled) |-> scan.handled[i].transfer]

ConnectWhileConnected ==
  /\ isConnected
  /\ tasks'[<<"hd", "reconnectDelay", 0>>] < tasks[<<"hd", "reconnectDelay", 0>>]

\* C16: connect() entered while isConnected is true starts no client (no
\* bot.start() is awaited), passes through neither the breaker nor the retry
\* executor, and leaves isConnected, reconnectAttempts and the breaker as
\* they were.
C16_ConnectWhenConnectedIsNoOp ==
  [][ConnectWhileConnected =>
       /\ isConnected'
       /\ reconnectAttempts' = reconnectAttempts
       /\ breaker' = breaker
       /\ hasBot' = hasBot
       /\ \A t \in TaskStates \ {<<"hd", "reconnectDelay", 0>>} : tasks'[t] = tasks[t]]_vars

\* handleDisconnect()'s connect() found the supervisor connected again (by
\* the connect() of main() that was in progress) and returned at once.
C16_Witness ==
  /\ connEnded = [caller |-> "hd", result |-> "noop"]
  /\ isConnected
  /\ hasBot

\* C11: once connect() has succeeded inside handleDisconnect(), the observers
\* are eventually subscribed on the client it made (unless the process has
\* ended or main() has failed).
C11_ReconnectResubscribes ==
  sup.reconnected ~> (sup.bot \in sup.observed \/ ~Alive \/ sup.pc = "failed")

\* a step in which a call of processOperation settles
HandlerSettled == PendingHandlers(sup') < PendingHandlers(sup)

\* C12: when a call of processOperation settles, whether it dealt with the
\* operation, its grant failed or it threw, the observers stay subscribed and
\* the clients, isConnected and reconnectAttempts are as before, so operations
\* delivered later are processed.
C12_ItemIsolation ==
  [][HandlerSettled =>
       /\ sup'.observed = sup.observed
       /\ sup'.started = sup.started
       /\ sup'.bot = sup.bot
       /\ isConnected' = isConnected
       /\ reconnectAttempts' = reconnectAttempts]_vars

\* One operation failed, and an operation delivered after it was processed.
C12_Witness ==
  /\ sup.isolation = "processedAfter"
  /\ sup.lastSettled = "done"
  /\ sup.observed # {}

\* C13: for each observed account at most one handler is running: the next
\* operation's handler does not start before the previous one has settled.
C13_OneHandlerAtATime ==
  \A a \in StreamAccounts : sup.pending[a] <= 1

\* C17: when shutdown() has ended the process, it has called db.end(),
\* whichever of its earlier steps failed.
C17_ShutdownAlwaysEndsPool ==
  sd.pc = "exited" => sd.poolEndCalled

\* C18: once monitor.stop() has returned, every client is closed, no observer
\* is subscribed and no operation is dispatched to processOperation.
C18_StopClosesStream ==
  sd.stopReturned =>
    /\ sup.started = {}
    /\ sup.observed = {}
    /\ ~sd.dispatchedAfterStop

\* a step in which an awaited operation resolves / rejects
OperationSucceeded == inFlight' = inFlight - 1 /\ cbStreak' = 0
OperationFailed == inFlight' = inFlight - 1 /\ cbStreak' = cbStreak + 1

\* C21: a call that succeeds while the breaker is closed leaves failureCount
\* at 0 and the breaker closed; and the breaker goes from closed to open only
\* on a failure that is at least the failureThreshold-th since the last
\* success (or since the breaker last closed).
C21_SuccessResetsCount ==
  [][/\ (OperationSucceeded /\ ~breaker.isOpen) =>
          (breaker'.failureCount = 0 /\ ~breaker'.isOpen)
     /\ (~breaker.isOpen /\ breaker'.isOpen) =>
          (OperationFailed /\ cbStreak' >= breaker.failureThreshold)]_vars

\* A call admitted after one failure has succeeded under a closed breaker of
\* threshold 3.
C21_Witness ==
  /\ breaker.failureThreshold = 3
  /\ cbCall.outcome = "invoked"
  /\ cbCall.streak = 1
  /\ cbStreak = 0
  /\ breaker.failureCount = 0
  /\ ~breaker.isOpen
  /\ breaker.lastFailureTime # NoTime

\* an error has come out of handleDisconnect(): its own throw (line 104) or
\* the rejection of the connect() it awaits (line 101)
EscapedHandleDisconnect ==
  /\ connEnded.caller = "hd"
  /\ connEnded.result \in {"fatal", "exhausted", "CircuitOpen"}

\* C22: an error comes out of handleDisconnect() only when reconnectAttempts
\* has reached maxReconnectAttempts; a connect() that fails during an earlier
\* reconnect attempt does not end handleDisconnect() with an error.
C22_FatalOnlyAfterBudget ==
  EscapedHandleDisconnect => reconnectAttempts >= MaxReconnectAttempts

\* C23: a client whose start() was rejected is put aside: no observer is
\* subscribed on it, and no notification of it runs handleDisconnect().
C23_FailedClientUnused ==
  /\ \A i \in cl.observedOn : cl.status[i] # "failed"
  /\ ~cl.staleEvent

C25_CompletionIsDisconnect ==
  cl.lastEvent.kind = "observerComplete" =>
    /\ cl.lastEvent.ran
    /\ ~cl.lastEvent.connectedAfter

\* C26: after the upsert of a grant whose SELECT-to-upsert span overlapped
\* another grant's for the same username, the username's row has as
\* expiration_date that grant's time + days (and the table, keyed by username,
\* holds one row for it).
C26_RacingGrantsOnePeriod ==
  (race.lastUpsert.done /\ race.lastUpsert.raced /\ Upserting(race) = {}) =>
    /\ subs[RaceUser].exists
    /\ subs[RaceUser].expiration_date =
         race.lastUpsert.subscriptionDate + race.lastUpsert.days

\* C27: a sweep has signalled the heartbeat (updateLastCheck) exactly when
\* its database update succeeded.
C27_HeartbeatIffSweepSucceeded ==
  dbq.sweep.done => (dbq.sweep.heartbeat = dbq.sweep.updated)

\* A sweep whose update failed on every attempt ended without a heartbeat.
C27_Witness ==
  /\ dbq.sweep.done
  /\ ~dbq.sweep.updated
  /\ ~dbq.sweep.heartbeat
  /\ dbq.sweep.result = "rejected"
  /\ dbq.op = "none"

\* C28 as stated: a sweep whose update failed has issued the statement once,
\* has logged the failure and has not thrown.
C28_FailedSweepIssuesOnce ==
  (dbq.sweep.done /\ ~dbq.sweep.updated) =>
    /\ dbq.sweep.issued <= 1
    /\ dbq.sweep.logged
    /\ ~dbq.sweep.threw

\* C28: a sweep whose update failed has called db.query once, which issued
\* the statement maxAttempts (3) times, or not at all when the breaker was
\* open; it has logged the failure and has not thrown.
C28_FailedSweepOneQuery ==
  (dbq.sweep.done /\ ~dbq.sweep.updated) =>
    /\ dbq.sweep.queries = 1
    /\ dbq.sweep.issued = IF dbq.sweep.result = "CircuitOpen"
                             THEN 0 ELSE DbRetry.maxAttempts
    /\ dbq.sweep.logged
    /\ ~dbq.sweep.threw

\* A sweep failed after its statement was issued three times.
C28_Witness ==
  /\ dbq.sweep.done
  /\ ~dbq.sweep.updated
  /\ dbq.sweep.issued = DbRetry.maxAttempts
  /\ dbq.sweep.logged

C30_FailedGrantIsRetried ==
  (dbq.item.done /\ dbq.item.kind = "qualifying" /\ dbq.item.grantFailed) =>
    dbq.item.grants = HiveRetry.maxAttempts

\* C31: an operation whose classification throws is attempted once by
\* processOperation and never waits in the retry executor's backoff.
C31_ClassificationNotRetried ==
  /\ (dbq.op = "item" /\ dbq.kind = "malformed") => dbq.pc # "itemBackoff"
  /\ (dbq.item.done /\ dbq.item.kind = "malformed") => dbq.item.procAttempts = 1

C33_BreakerStateInvariant ==
  /\ breaker.isOpen <=> breaker.failureCount >= breaker.failureThreshold
  /\ breaker.isOpen => breaker.lastFailureTime # NoTime

C33_Witness ==
  /\ breaker.isOpen
  /\ breaker.failureCount > breaker.failureThreshold
  /\ cbCall.outcome = "invoked"

\* C34: an open breaker closes only in a step taken when resetTimeout has
\* elapsed since lastFailureTime, also when calls admitted before it opened
\* complete afterwards.
C34_OpenUntilCooldown ==
  [][(breaker.isOpen /\ ~breaker'.isOpen) =>
       Elapsed(breaker, clock) >= breaker.resetTimeout]_vars

\* a step in which a connect() call returns normally: bot.start() resolved,
\* or the call found the monitor connected and returned at once
ConnectReturned ==
  /\ TaskCount(tasks') < TaskCount(tasks)
  /\ connEnded'.result \in {"connected", "noop"}

\* C35: reconnectAttempts stays within 0..maxReconnectAttempts whatever the
\* interleaving of disconnect notifications and connects, and it is 0 right
\* after every connect() that returns normally.
C35_ReconnectAttemptsInRange ==
  /\ [](reconnectAttempts \in 0..MaxReconnectAttempts)
  /\ [][ConnectReturned => reconnectAttempts' = 0]_vars

C35_Witness ==
  /\ connEnded = [caller |-> "hd", result |-> "noop"]
  /\ hdLast.outcome = "reconnect"
  /\ hdLast.seen > 0
  /\ isConnected
  /\ reconnectAttempts = 0

\* the connect() calls made by handleDisconnect that are inside the retry
\* executor: waiting for bot.start() or for the backoff before the next
\* new WorkerBee()
ConnectsInFlight ==
  TaskCount([st \in TaskStates |->
               IF st[1] = "hd" /\ st[2] \in {"botStart", "backoff"}
                 THEN tasks[st] ELSE 0])

\* C36: at most one connect() called by handleDisconnect is establishing a
\* connection at any time, however many disconnect notifications have arrived.
C36_OneConnectInFlight == ConnectsInFlight <= 1

\* C37: an 'error' or 'disconnect' notification of a client that a newer
\* client has replaced leaves isConnected as it was and does not count
\* against the reconnect budget.
C37_ReplacedClientIgnored ==
  (cl.lastEvent.kind \in ClientEvents /\ cl.lastEvent.replaced) =>
    /\ cl.lastEvent.connectedAfter = cl.lastEvent.connectedBefore
    /\ ~cl.lastEvent.delayed

C39_OrderIrrelevant ==
  ord.done = 2 => ord.ab.expiration_date = ord.ba.expiration_date

\* C39: the transfer processed first opens the window, and a second transfer
\* processed while that window is open leaves the record as it is; the order
\* of the two is without effect when they grant the same day count, and when
\* the user's earlier window is open at both transfers.
C39_FirstTransferDecides ==
  ord.done = 2 =>
    /\ ord.today <= ord.ab1.expiration_date => ord.ab = ord.ab1
    /\ ord.today <= ord.ba1.expiration_date => ord.ba = ord.ba1
    /\ ord.a = ord.b => ord.ab = ord.ba
    /\ (ord.start.exists /\ ord.today <= ord.start.expiration_date) =>
         (ord.ab = ord.start /\ ord.ba = ord.start)

C39_Witness ==
  /\ ord.done = 2
  /\ ord.start = NoRow
  /\ ord.a # ord.b
  /\ ord.ab = ord.ab1
  /\ ord.ab.expiration_date # ord.ba.expiration_date

\* a grant has just written the row of lastOp.user: addSubscription, or
\* addFreeTrial with a positive day count
GrantWrote ==
  /\ lastOp.wrote
  /\ \/ lastOp.op = "addSubscription"
     \/ lastOp.op = "addFreeTrial" /\ lastOp.days > 0

\* C40: through grants, free trials, revocations and sweeps, a row that is
\* not active has an expiration_date that is not after now, and a grant that
\* writes a row leaves it active.
C40_InactiveOnlyWhenExpired ==
  /\ \A u \in Users :
       (subs[u].exists /\ ~subs[u].active_subscription) =>
         subs[u].expiration_date <= now
  /\ GrantWrote => subs[lastOp.user].active_subscription

\* a revocation has just closed a window that was open
C40_Witness ==
  /\ lastOp.op = "addFreeTrial"
  /\ lastOp.days = 0
  /\ lastOp.wrote
  /\ lastOp.windowOpen
  /\ ~subs[lastOp.user].active_subscription
  /\ subs[lastOp.user].expiration_date = now

====
